---- MODULE Spec2Model ----
(***************************************************************************)
(* Model of the MQTT 3.1.1 client session engine of lwcell                 *)
(* (src/lwcell/src/apps/mqtt/lwcell_mqtt_client.c).                        *)
(*                                                                         *)
(* The client structure is the record `client`; every C function is an     *)
(* operator from a "world" record w to a world record, where               *)
(*   w.c  is the lwcell_mqtt_client_t structure,                           *)
(*   w.t  is the connection (transport) the client talks to,               *)
(*   w.e  is the list of calls of client->evt_fn made by the handler,      *)
(*   w.r  is the value the function returns.                               *)
(* One action of Next is one API call or one transport event, run to its   *)
(* end under the core lock.                                                *)
(***************************************************************************)
EXTENDS Integers, Sequences, FiniteSets, TLC

VARIABLES client, transport, evts, last, ghost, sessions

vars == <<client, transport, evts, last, ghost, sessions>>

(***************************************************************************)
(* Bounds of the model.                                                    *)
(***************************************************************************)
\* Number of slots of the request registry (LWCELL_CFG_MQTT_MAX_REQUESTS).
MaxRequests == 2
\* Length of the TX ring given to lwcell_mqtt_client_new.
TxBuffLen == 16
\* Length of the RX buffer given to lwcell_mqtt_client_new.
RxBuffLen == 4
\* Requests accepted in one session (their user arguments are 1..MaxArgs).
MaxArgs == 2
\* Requests accepted in one session where only the publish path is walked.
MaxArgsPub == 3
\* Bytes written to the TX buffer in one session before the inputs stop.
MaxStream == 22
\* The same where only the publish path is walked.
MaxStreamPub == 28
\* The same where the packet identifiers are walked.
MaxStreamIds == 40

\* bytes written to the TX buffer in the session where the handshakes of
\* QoS 2 are walked
MaxStreamQos2 == 28

\* bound: the remaining-length bytes of one inbound packet
MaxLenBytes == 6

\* bound: the body bytes of one inbound packet copied so far
MaxBodyRead == 2

\* bytes written to the TX buffer in the session where the delivery of the
\* inbound packets is split
MaxStreamRx == 24

\* length of the long payload given to publish (payload_len is a uint16_t)
BigPayloadLen == 65534
\* Bytes handed to the transport in one session before failed sends stop.
MaxWritten == 24
\* Poll ticks counted before the poll event stops.
MaxPoll == 2

\* poll events without a reset of poll_time where the keep-alive is walked
MaxPollKa == 21

\* length of the long user name of a session descriptor (the lengths of the
\* strings of CONNECT are uint16_t)
LongUserLen == 65533
\* length of the TX ring of the client whose CONNECT packets are compared
\* byte by byte
ConnTxBuffLen == 64
\* Packet identifiers handed out before id-allocating calls stop.
MaxPktId == 2
\* Connections started before connect stops.
MaxSessions == 1

(***************************************************************************)
(* Program constants.                                                      *)
(***************************************************************************)
MQTT_MSG_TYPE_CONNECT == 1
MQTT_MSG_TYPE_CONNACK == 2
MQTT_MSG_TYPE_PUBLISH == 3
MQTT_MSG_TYPE_PUBACK == 4
MQTT_MSG_TYPE_PUBREC == 5
MQTT_MSG_TYPE_PUBREL == 6
MQTT_MSG_TYPE_PUBCOMP == 7
MQTT_MSG_TYPE_SUBSCRIBE == 8
MQTT_MSG_TYPE_SUBACK == 9
MQTT_MSG_TYPE_UNSUBSCRIBE == 10
MQTT_MSG_TYPE_UNSUBACK == 11
MQTT_MSG_TYPE_PINGREQ == 12
MQTT_MSG_TYPE_PINGRESP == 13
MQTT_MSG_TYPE_DISCONNECT == 14

MQTT_FLAG_CONNECT_USERNAME == 128
MQTT_FLAG_CONNECT_PASSWORD == 64
MQTT_FLAG_CONNECT_WILL_RETAIN == 32
MQTT_FLAG_CONNECT_WILL == 4
MQTT_FLAG_CONNECT_CLEAN_SESSION == 2

MQTT_PARSER_STATE_INIT == 0
MQTT_PARSER_STATE_CALC_REM_LEN == 1
MQTT_PARSER_STATE_READ_REM == 2

MQTT_REQUEST_FLAG_IN_USE == 1
MQTT_REQUEST_FLAG_PENDING == 2
MQTT_REQUEST_FLAG_SUBSCRIBE == 4
MQTT_REQUEST_FLAG_UNSUBSCRIBE == 8

\* Poll period of a connection in milliseconds.
LWCELL_CFG_CONN_POLL_INTERVAL == 500

\* The members of lwcell_mqtt_state_t the source names.
LWCELL_MQTT_CONN_DISCONNECTED == "CONN_DISCONNECTED"
LWCELL_MQTT_CONN_CONNECTING == "CONN_CONNECTING"
LWCELL_MQTT_CONN_DISCONNECTING == "CONN_DISCONNECTING"
LWCELL_MQTT_CONNECTING == "MQTT_CONNECTING"
LWCELL_MQTT_CONNECTED == "MQTT_CONNECTED"

\* A null pointer where the model expects a string or a buffer.
Null == <<-1>>
\* "No request" (a null lwcell_mqtt_request_t pointer).
NoRequest == -1

(***************************************************************************)
(* Fixed-width integers.                                                   *)
(***************************************************************************)
LWCELL_U8(x) == x % 256
LWCELL_U16(x) == x % 65536
\* uint32_t arithmetic.  TLC's integers end at 2^31 - 1, and the bounds of
\* the model keep every 32-bit counter far below that, where the reduction
\* modulo 2^32 changes nothing.
U32(x) == x
LWCELL_MIN(x, y) == IF x < y THEN x ELSE y

\* (x & f) != 0 for a single-bit mask f
HasFlag(x, f) == (x \div f) % 2 = 1
\* x | f for a single-bit mask f
SetFlag(x, f) == IF HasFlag(x, f) THEN x ELSE x + f

(***************************************************************************)
(* The ring buffer lwcell_buff_t: `size` cells, the read position r and    *)
(* the bytes between the read and the write position, oldest first.  The   *)
(* write position is (r + Len(data)) % size.                               *)
(***************************************************************************)
BuffInit(size) == [size |-> size, r |-> 0, data |-> <<>>]

\* lwcell_buff_get_free: one cell is always kept free
BuffGetFree(b) == b.size - 1 - Len(b.data)

\* lwcell_buff_write: writes as many bytes as fit
BuffWrite(b, bytes) ==
    LET n == LWCELL_MIN(Len(bytes), BuffGetFree(b))
    IN [b EXCEPT !.data = @ \o SubSeq(bytes, 1, n)]

\* lwcell_buff_get_linear_block_read_length: readable bytes up to the end of
\* the memory
BuffGetLinearBlockReadLength(b) == LWCELL_MIN(Len(b.data), b.size - b.r)

\* the bytes at lwcell_buff_get_linear_block_read_address
BuffLinearBlock(b) == SubSeq(b.data, 1, BuffGetLinearBlockReadLength(b))

\* lwcell_buff_skip: advances the read position over at most the stored bytes
BuffSkip(b, len) ==
    LET n == LWCELL_MIN(len, Len(b.data))
    IN [b EXCEPT !.r = (@ + n) % b.size,
                 !.data = SubSeq(@, n + 1, Len(@))]

\* lwcell_buff_reset
BuffReset(b) == [b EXCEPT !.r = 0, !.data = <<>>]

(***************************************************************************)
(* User events: one record per call of client->evt_fn.                     *)
(***************************************************************************)
EvtBase ==
    [type |-> "NONE", res |-> "-", arg |-> 0, status |-> 0,
     is_accepted |-> FALSE, topic |-> <<>>, payload |-> <<>>,
     dup |-> 0, qos |-> 0, retain |-> 0]

EvtFn(w, ev) == [w EXCEPT !.e = Append(@, ev)]

(***************************************************************************)
(* Packet identifiers and the request registry.                            *)
(***************************************************************************)
Slots == 0 .. (MaxRequests - 1)

\* prv_create_packet_id without the test for 0
CreatePacketIdNoSkip(w) ==
    LET n == LWCELL_U16(w.c.last_packet_id + 1)
    IN [w EXCEPT !.c.last_packet_id = n]

\* prv_create_packet_id: the new identifier is w.c.last_packet_id of the result
prv_create_packet_id(w) ==
    LET n == LWCELL_U16(w.c.last_packet_id + 1)
    IN [w EXCEPT !.c.last_packet_id = IF n = 0 THEN 1 ELSE n]

\* the slot prv_request_create takes: the first without IN_USE, or NoRequest
RequestFreeSlot(c) ==
    IF \E i \in Slots : ~HasFlag(c.requests[i].status, MQTT_REQUEST_FLAG_IN_USE)
    THEN CHOOSE i \in Slots :
            /\ ~HasFlag(c.requests[i].status, MQTT_REQUEST_FLAG_IN_USE)
            /\ \A j \in Slots :
                  j < i => HasFlag(c.requests[j].status, MQTT_REQUEST_FLAG_IN_USE)
    ELSE NoRequest

\* prv_request_create that takes the first slot when none is free
RequestCreateReuse(w, packet_id, arg) ==
    LET f == RequestFreeSlot(w.c)
        i == IF f # NoRequest THEN f ELSE 0
    IN [w EXCEPT !.c.requests[i].packet_id = packet_id,
                 !.c.requests[i].arg = arg,
                 !.c.requests[i].status = MQTT_REQUEST_FLAG_IN_USE,
                 !.r = i]

\* prv_request_create that takes the last free slot
RequestCreateLast(w, packet_id, arg) ==
    LET free == { i \in Slots : ~HasFlag(w.c.requests[i].status, MQTT_REQUEST_FLAG_IN_USE) }
    IN IF free # {}
       THEN LET i == CHOOSE k \in free : \A j \in free : j <= k
            IN [w EXCEPT !.c.requests[i].packet_id = packet_id,
                         !.c.requests[i].arg = arg,
                         !.c.requests[i].status = MQTT_REQUEST_FLAG_IN_USE,
                         !.r = i]
       ELSE [w EXCEPT !.r = NoRequest]

\* prv_request_create: w.r is the slot of the new request or NoRequest
prv_request_create(w, packet_id, arg) ==
    LET i == RequestFreeSlot(w.c)
    IN IF i # NoRequest
       THEN [w EXCEPT !.c.requests[i].packet_id = packet_id,
                      !.c.requests[i].arg = arg,
                      !.c.requests[i].status = MQTT_REQUEST_FLAG_IN_USE,
                      !.r = i]
       ELSE [w EXCEPT !.r = NoRequest]

\* prv_request_delete
prv_request_delete(w, i) == [w EXCEPT !.c.requests[i].status = 0]

\* prv_request_set_pending (the time stamp it takes is never read)
prv_request_set_pending(w, i) ==
    [w EXCEPT !.c.requests[i].status = SetFlag(@, MQTT_REQUEST_FLAG_PENDING)]

\* prv_request_get_pending that does not compare the packet id
RequestGetPendingAny(c, pkt_id) ==
    LET hit(i) == HasFlag(c.requests[i].status, MQTT_REQUEST_FLAG_PENDING)
    IN IF \E i \in Slots : hit(i)
       THEN CHOOSE i \in Slots : hit(i) /\ \A j \in Slots : j < i => ~hit(j)
       ELSE NoRequest

\* prv_request_get_pending: the first pending slot whose packet id is
\* (uint16_t)pkt_id, or the first pending slot when pkt_id is -1
prv_request_get_pending(c, pkt_id) ==
    LET hit(i) == /\ HasFlag(c.requests[i].status, MQTT_REQUEST_FLAG_PENDING)
                  /\ (pkt_id = -1 \/ c.requests[i].packet_id = LWCELL_U16(pkt_id))
    IN IF \E i \in Slots : hit(i)
       THEN CHOOSE i \in Slots : hit(i) /\ \A j \in Slots : j < i => ~hit(j)
       ELSE NoRequest

\* prv_request_send_err_callback that takes every request for a publish
SendErrCallbackAsPublish(w, status, arg) ==
    EvtFn(w, [EvtBase EXCEPT !.type = "PUBLISH", !.arg = arg, !.res = "ERR"])

\* prv_request_send_err_callback
prv_request_send_err_callback(w, status, arg) ==
    LET type == IF HasFlag(status, MQTT_REQUEST_FLAG_SUBSCRIBE) THEN "SUBSCRIBE"
                ELSE IF HasFlag(status, MQTT_REQUEST_FLAG_UNSUBSCRIBE) THEN "UNSUBSCRIBE"
                ELSE "PUBLISH"
    IN EvtFn(w, [EvtBase EXCEPT !.type = type, !.arg = arg, !.res = "ERR"])

(***************************************************************************)
(* Writers of the TX buffer.                                               *)
(***************************************************************************)
TxWrite(w, bytes) == [w EXCEPT !.c.tx_buff = BuffWrite(@, bytes)]

\* the first byte of prv_write_fixed_header without the flags of PUBLISH
FixedHeaderByteNoFlags(type, dup, qos, retain) ==
    LET b == LWCELL_U8(type * 16)
    IN IF type \in {MQTT_MSG_TYPE_PUBREL, MQTT_MSG_TYPE_SUBSCRIBE,
                    MQTT_MSG_TYPE_UNSUBSCRIBE}
       THEN b + 2
       ELSE b

\* the first byte prv_write_fixed_header writes
FixedHeaderByte(type, dup, qos, retain) ==
    LET b == LWCELL_U8(type * 16)
    IN IF type = MQTT_MSG_TYPE_PUBLISH
       THEN b + (IF dup # 0 THEN 8 ELSE 0) + (qos % 4) * 2 + (IF retain # 0 THEN 1 ELSE 0)
       ELSE IF type \in {MQTT_MSG_TYPE_PUBREL, MQTT_MSG_TYPE_SUBSCRIBE,
                         MQTT_MSG_TYPE_UNSUBSCRIBE}
       THEN b + 2
       ELSE b

\* the remaining-length bytes prv_write_fixed_header writes (its do-while loop)
RECURSIVE RemLenBytes(_)
RemLenBytes(rem_len) ==
    LET b == LWCELL_U8((rem_len % 128) + (IF rem_len > 127 THEN 128 ELSE 0))
        rest == rem_len \div 128
    IN IF rest > 0 THEN <<b>> \o RemLenBytes(rest) ELSE <<b>>

\* prv_write_fixed_header; rem_len is a uint16_t parameter
prv_write_fixed_header(w, type, dup, qos, retain, rem_len) ==
    TxWrite(TxWrite(w, <<FixedHeaderByte(type, dup, qos, retain)>>),
            RemLenBytes(LWCELL_U16(rem_len)))

prv_write_u8(w, num) == TxWrite(w, <<LWCELL_U8(num)>>)

prv_write_u16(w, num) == prv_write_u8(prv_write_u8(w, num \div 256), num % 256)

prv_write_data(w, data) == TxWrite(w, data)

prv_write_string(w, str, len) == TxWrite(prv_write_u16(w, len), SubSeq(str, 1, len))

\* number of bytes the remaining length takes (the do-while loop of
\* prv_output_check_enough_memory)
RECURSIVE RemLenCount(_)
RemLenCount(rem_len) ==
    IF rem_len \div 128 > 0 THEN 1 + RemLenCount(rem_len \div 128) ELSE 1

\* prv_output_check_enough_memory; rem_len and the result are uint16_t
prv_output_check_enough_memory(c, rem_len) ==
    LET rl == LWCELL_U16(rem_len)
        total_len == LWCELL_U16(rl + 1 + RemLenCount(rl))
    IN IF LWCELL_U16(BuffGetFree(c.tx_buff)) >= total_len THEN total_len ELSE 0

\* prv_send_data that does not count the bytes handed to the transport
SendDataNoCount(w, sendok) ==
    IF w.c.is_sending # 0
    THEN w
    ELSE LET len == BuffGetLinearBlockReadLength(w.c.tx_buff)
         IN IF len > 0
            THEN IF sendok
                 THEN [w EXCEPT !.t.inflight = Append(@, BuffLinearBlock(w.c.tx_buff)),
                                !.c.is_sending = 1]
                 ELSE w
            ELSE [w EXCEPT !.c.tx_buff = BuffReset(@)]

\* prv_send_data without the test of is_sending
SendDataAlways(w, sendok) ==
    LET len == BuffGetLinearBlockReadLength(w.c.tx_buff)
    IN IF len > 0
       THEN IF sendok
            THEN [w EXCEPT !.t.inflight = Append(@, BuffLinearBlock(w.c.tx_buff)),
                           !.c.written_total = U32(@ + len),
                           !.c.is_sending = 1]
            ELSE w
       ELSE [w EXCEPT !.c.tx_buff = BuffReset(@)]

\* prv_send_data without lwcell_buff_reset
SendDataNoReset(w, sendok) ==
    IF w.c.is_sending # 0
    THEN w
    ELSE LET len == BuffGetLinearBlockReadLength(w.c.tx_buff)
         IN IF len > 0
            THEN IF sendok
                 THEN [w EXCEPT !.t.inflight = Append(@, BuffLinearBlock(w.c.tx_buff)),
                                !.c.written_total = U32(@ + len),
                                !.c.is_sending = 1]
                 ELSE w
            ELSE w

\* prv_send_data; sendok is whether lwcell_conn_send returns lwcellOK
prv_send_data(w, sendok) ==
    IF w.c.is_sending # 0
    THEN w
    ELSE LET len == BuffGetLinearBlockReadLength(w.c.tx_buff)
         IN IF len > 0
            THEN IF sendok
                 THEN [w EXCEPT !.t.inflight = Append(@, BuffLinearBlock(w.c.tx_buff)),
                                !.c.written_total = U32(@ + len),
                                !.c.is_sending = 1]
                 ELSE w
            ELSE [w EXCEPT !.c.tx_buff = BuffReset(@)]

\* prv_write_ack_rec_rel_resp
prv_write_ack_rec_rel_resp(w, msg_type, pkt_id, qos, sendok) ==
    IF prv_output_check_enough_memory(w.c, 2) # 0
    THEN [prv_send_data(
            prv_write_u16(prv_write_fixed_header(w, msg_type, 0, qos, 0, 2), pkt_id),
            sendok) EXCEPT !.r = 1]
    ELSE [w EXCEPT !.r = 0]

\* prv_mqtt_close that leaves conn_state as it is
CloseKeepState(w, closeok) ==
    IF /\ w.c.conn_state # LWCELL_MQTT_CONN_DISCONNECTED
       /\ w.c.conn_state # LWCELL_MQTT_CONN_DISCONNECTING
    THEN IF closeok
         THEN [w EXCEPT !.t.closing = TRUE, !.r = "OK"]
         ELSE [w EXCEPT !.r = "ERR"]
    ELSE [w EXCEPT !.r = "ERR"]

\* prv_mqtt_close; closeok is whether lwcell_conn_close returns lwcellOK
prv_mqtt_close(w, closeok) ==
    IF /\ w.c.conn_state # LWCELL_MQTT_CONN_DISCONNECTED
       /\ w.c.conn_state # LWCELL_MQTT_CONN_DISCONNECTING
    THEN IF closeok
         THEN [w EXCEPT !.c.conn_state = LWCELL_MQTT_CONN_DISCONNECTING,
                        !.t.closing = TRUE,
                        !.r = "OK"]
         ELSE [w EXCEPT !.r = "ERR"]
    ELSE [w EXCEPT !.r = "ERR"]

\* prv_sub_unsub without the test of the session state
SubUnsubAnyState(w, topic, qos, arg, sub, sendok) ==
    LET len_topic == LWCELL_U16(Len(topic))
        rem_len == 2 + len_topic + 2 + (IF sub # 0 THEN 1 ELSE 0)
    IN IF len_topic = 0
       THEN [w EXCEPT !.r = 0]
       ELSE IF prv_output_check_enough_memory(w.c, rem_len) # 0
       THEN LET w1 == prv_create_packet_id(w)
                pkt_id == w1.c.last_packet_id
                w2 == prv_request_create(w1, pkt_id, arg)
                i == w2.r
                w3 == prv_write_fixed_header(w2,
                          IF sub # 0 THEN MQTT_MSG_TYPE_SUBSCRIBE
                                     ELSE MQTT_MSG_TYPE_UNSUBSCRIBE,
                          0, 1, 0, rem_len)
                w4 == prv_write_string(prv_write_u16(w3, pkt_id), topic, len_topic)
                w5 == IF sub # 0 THEN prv_write_u8(w4, LWCELL_MIN(LWCELL_U8(qos), 2))
                                 ELSE w4
                w6 == [w5 EXCEPT !.c.requests[i].status =
                          SetFlag(@, IF sub # 0 THEN MQTT_REQUEST_FLAG_SUBSCRIBE
                                                ELSE MQTT_REQUEST_FLAG_UNSUBSCRIBE)]
                w7 == prv_send_data(prv_request_set_pending(w6, i), sendok)
            IN IF i # NoRequest THEN [w7 EXCEPT !.r = 1] ELSE [w2 EXCEPT !.r = 0]
       ELSE [w EXCEPT !.r = 0]

\* prv_sub_unsub; sub is 1 for subscribe and 0 for unsubscribe
prv_sub_unsub(w, topic, qos, arg, sub, sendok) ==
    LET len_topic == LWCELL_U16(Len(topic))
        rem_len == 2 + len_topic + 2 + (IF sub # 0 THEN 1 ELSE 0)
    IN IF len_topic = 0
       THEN [w EXCEPT !.r = 0]
       ELSE IF /\ w.c.conn_state = LWCELL_MQTT_CONNECTED
               /\ prv_output_check_enough_memory(w.c, rem_len) # 0
       THEN LET w1 == prv_create_packet_id(w)
                pkt_id == w1.c.last_packet_id
                w2 == prv_request_create(w1, pkt_id, arg)
                i == w2.r
                w3 == prv_write_fixed_header(w2,
                          IF sub # 0 THEN MQTT_MSG_TYPE_SUBSCRIBE
                                     ELSE MQTT_MSG_TYPE_UNSUBSCRIBE,
                          0, 1, 0, rem_len)
                w4 == prv_write_string(prv_write_u16(w3, pkt_id), topic, len_topic)
                w5 == IF sub # 0 THEN prv_write_u8(w4, LWCELL_MIN(LWCELL_U8(qos), 2))
                                 ELSE w4
                w6 == [w5 EXCEPT !.c.requests[i].status =
                          SetFlag(@, IF sub # 0 THEN MQTT_REQUEST_FLAG_SUBSCRIBE
                                                ELSE MQTT_REQUEST_FLAG_UNSUBSCRIBE)]
                w7 == prv_send_data(prv_request_set_pending(w6, i), sendok)
            IN IF i # NoRequest THEN [w7 EXCEPT !.r = 1] ELSE [w2 EXCEPT !.r = 0]
       ELSE [w EXCEPT !.r = 0]

(***************************************************************************)
(* Incoming packets.                                                       *)
(***************************************************************************)
\* An undefined read, or a left shift of the int (ch & 0x7F) whose result
\* does not fit an int or whose count is 35 or more, yields the action's
\* choice u.
\* x | y
RECURSIVE BitOr(_, _)
BitOr(x, y) ==
    IF x = 0 THEN y
    ELSE IF y = 0 THEN x
    ELSE (IF x % 2 = 1 \/ y % 2 = 1 THEN 1 ELSE 0) + 2 * BitOr(x \div 2, y \div 2)

RECURSIVE Pow2(_)
Pow2(n) == IF n = 0 THEN 1 ELSE 2 * Pow2(n - 1)

\* client->rx_buff[k]: rx is the memory rx_buff points to; a cell that was
\* never written (-1) or lies behind that memory holds the byte u
RxAt(rx, k, u) == IF k + 1 <= Len(rx) /\ rx[k + 1] # -1 THEN rx[k + 1] ELSE u

MQTT_RCV_GET_PACKET_TYPE(d) == (d \div 16) % 16
MQTT_RCV_GET_PACKET_QOS(d) == (d \div 2) % 4
MQTT_RCV_GET_PACKET_DUP(d) == (d \div 8) % 2
MQTT_RCV_GET_PACKET_RETAIN(d) == d % 2

\* status of a CONNECT event when the TCP connection failed
LWCELL_MQTT_CONN_STATUS_TCP_FAILED == 256

\* case MQTT_MSG_TYPE_CONNACK without the test of the session state
ProcessConnackAlways(w, rx, u) ==
    LET err == RxAt(rx, 1, u)
    IN EvtFn([w EXCEPT !.c.conn_state =
                  IF err = 0 THEN LWCELL_MQTT_CONNECTED ELSE @],
             [EvtBase EXCEPT !.type = "CONNECT", !.status = err])

\* case MQTT_MSG_TYPE_CONNACK
ProcessConnack(w, rx, u) ==
    LET err == RxAt(rx, 1, u)
    IN IF w.c.conn_state = LWCELL_MQTT_CONNECTING
       THEN EvtFn([w EXCEPT !.c.conn_state =
                       IF err = 0 THEN LWCELL_MQTT_CONNECTED ELSE @],
                  [EvtBase EXCEPT !.type = "CONNECT", !.status = err])
       ELSE w

\* case MQTT_MSG_TYPE_PUBLISH
ProcessPublish(w, rx, u, sendok) ==
    LET hdr == w.c.msg_hdr_byte
        qos == MQTT_RCV_GET_PACKET_QOS(hdr)
        topic_len == RxAt(rx, 0, u) * 256 + RxAt(rx, 1, u)
        pkt_id == IF qos > 0
                  THEN RxAt(rx, 2 + topic_len, u) * 256 + RxAt(rx, 2 + topic_len + 1, u)
                  ELSE 0
        data_off == 2 + topic_len + (IF qos > 0 THEN 2 ELSE 0)
        data_len == LWCELL_U16(w.c.msg_rem_len - data_off)
        w1 == IF qos > 0
              THEN prv_write_ack_rec_rel_resp(w,
                       IF qos = 1 THEN MQTT_MSG_TYPE_PUBACK ELSE MQTT_MSG_TYPE_PUBREC,
                       pkt_id, qos, sendok)
              ELSE w
    IN EvtFn(w1, [EvtBase EXCEPT
                    !.type = "PUBLISH_RECV",
                    !.topic = [k \in 1 .. topic_len |-> RxAt(rx, 1 + k, u)],
                    !.payload = [k \in 1 .. data_len |-> RxAt(rx, data_off + k - 1, u)],
                    !.dup = MQTT_RCV_GET_PACKET_DUP(hdr),
                    !.qos = qos,
                    !.retain = MQTT_RCV_GET_PACKET_RETAIN(hdr)])

\* the cases of the acknowledgements where a PUBREC is taken for the final
\* acknowledgement of the request
ProcessAckRecRetires(w, rx, u, sendok) ==
    LET msg_type == MQTT_RCV_GET_PACKET_TYPE(w.c.msg_hdr_byte)
        pkt_id == RxAt(rx, 0, u) * 256 + RxAt(rx, 1, u)
        i == prv_request_get_pending(w.c, pkt_id)
    IN IF msg_type = MQTT_MSG_TYPE_PUBREL
       THEN prv_write_ack_rec_rel_resp(w, MQTT_MSG_TYPE_PUBCOMP, pkt_id, 0, sendok)
       ELSE IF i # NoRequest
       THEN prv_request_delete(
              IF msg_type \in {MQTT_MSG_TYPE_SUBACK, MQTT_MSG_TYPE_UNSUBACK}
              THEN EvtFn(w, [EvtBase EXCEPT
                       !.type = IF msg_type = MQTT_MSG_TYPE_SUBACK
                                THEN "SUBSCRIBE" ELSE "UNSUBSCRIBE",
                       !.arg = w.c.requests[i].arg,
                       !.res = IF RxAt(rx, 2, u) < 3 THEN "OK" ELSE "ERR"])
              ELSE EvtFn(w, [EvtBase EXCEPT
                       !.type = "PUBLISH",
                       !.arg = w.c.requests[i].arg,
                       !.res = "OK"]),
              i)
       ELSE w

\* cases SUBACK, UNSUBACK, PUBREC, PUBREL, PUBACK, PUBCOMP
ProcessAck(w, rx, u, sendok) ==
    LET msg_type == MQTT_RCV_GET_PACKET_TYPE(w.c.msg_hdr_byte)
        pkt_id == RxAt(rx, 0, u) * 256 + RxAt(rx, 1, u)
        i == prv_request_get_pending(w.c, pkt_id)
    IN IF msg_type = MQTT_MSG_TYPE_PUBREC
       THEN prv_write_ack_rec_rel_resp(w, MQTT_MSG_TYPE_PUBREL, pkt_id, 1, sendok)
       ELSE IF msg_type = MQTT_MSG_TYPE_PUBREL
       THEN prv_write_ack_rec_rel_resp(w, MQTT_MSG_TYPE_PUBCOMP, pkt_id, 0, sendok)
       ELSE IF i # NoRequest
       THEN prv_request_delete(
              IF msg_type \in {MQTT_MSG_TYPE_SUBACK, MQTT_MSG_TYPE_UNSUBACK}
              THEN EvtFn(w, [EvtBase EXCEPT
                       !.type = IF msg_type = MQTT_MSG_TYPE_SUBACK
                                THEN "SUBSCRIBE" ELSE "UNSUBSCRIBE",
                       !.arg = w.c.requests[i].arg,
                       !.res = IF RxAt(rx, 2, u) < 3 THEN "OK" ELSE "ERR"])
              ELSE EvtFn(w, [EvtBase EXCEPT
                       !.type = "PUBLISH",
                       !.arg = w.c.requests[i].arg,
                       !.res = "OK"]),
              i)
       ELSE w

\* prv_mqtt_process_incoming_message
prv_mqtt_process_incoming_message(w, rx, u, sendok) ==
    LET msg_type == MQTT_RCV_GET_PACKET_TYPE(w.c.msg_hdr_byte)
    IN IF msg_type = MQTT_MSG_TYPE_CONNACK THEN ProcessConnack(w, rx, u)
       ELSE IF msg_type = MQTT_MSG_TYPE_PUBLISH THEN ProcessPublish(w, rx, u, sendok)
       ELSE IF msg_type = MQTT_MSG_TYPE_PINGRESP
       THEN EvtFn(w, [EvtBase EXCEPT !.type = "KEEP_ALIVE"])
       ELSE IF msg_type \in {MQTT_MSG_TYPE_SUBACK, MQTT_MSG_TYPE_UNSUBACK,
                             MQTT_MSG_TYPE_PUBREC, MQTT_MSG_TYPE_PUBREL,
                             MQTT_MSG_TYPE_PUBACK, MQTT_MSG_TYPE_PUBCOMP}
       THEN ProcessAck(w, rx, u, sendok)
       ELSE w

\* the for loop of prv_mqtt_parse_incoming over one linear block d, from the
\* position idx (0-based)
RECURSIVE ParseLinear(_, _, _, _, _)
\* ParseLinear with the end of the body tested one byte early
ParseLinearEarly(w, d, idx, u, sendok) ==
    IF idx >= Len(d) THEN w
    ELSE
    LET ch == d[idx + 1]
        c == w.c
    IN IF c.parser_state = MQTT_PARSER_STATE_INIT
       THEN ParseLinear([w EXCEPT !.c.msg_hdr_byte = ch,
                                  !.c.msg_rem_len = 0,
                                  !.c.msg_rem_len_mult = 0,
                                  !.c.msg_curr_pos = 0,
                                  !.c.parser_state = MQTT_PARSER_STATE_CALC_REM_LEN],
                        d, idx + 1, u, sendok)
       ELSE IF c.parser_state = MQTT_PARSER_STATE_CALC_REM_LEN
       THEN LET shifted == IF \/ c.msg_rem_len_mult <= 3
                              \/ (c.msg_rem_len_mult = 4 /\ ch % 128 < 8)
                           THEN (ch % 128) * Pow2(7 * c.msg_rem_len_mult)
                           ELSE u
                rem_len == BitOr(c.msg_rem_len, shifted)
                w1 == [w EXCEPT !.c.msg_rem_len = rem_len,
                                !.c.msg_rem_len_mult = LWCELL_U8(@ + 1)]
            IN IF ch >= 128
               THEN ParseLinear(w1, d, idx + 1, u, sendok)
               ELSE IF rem_len > 0
               THEN IF Len(d) - idx > rem_len
                    THEN ParseLinear(
                           [prv_mqtt_process_incoming_message(
                                w1, SubSeq(d, idx + 2, Len(d)), u, sendok)
                              EXCEPT !.c.parser_state = MQTT_PARSER_STATE_INIT],
                           d, idx + rem_len + 1, u, sendok)
                    ELSE ParseLinear(
                           [w1 EXCEPT !.c.parser_state = MQTT_PARSER_STATE_READ_REM],
                           d, idx + 1, u, sendok)
               ELSE ParseLinear(
                      [prv_mqtt_process_incoming_message(w1, w1.c.rx_buff, u, sendok)
                         EXCEPT !.c.parser_state = MQTT_PARSER_STATE_INIT],
                      d, idx + 1, u, sendok)
       ELSE IF c.parser_state = MQTT_PARSER_STATE_READ_REM
       THEN LET w1 == IF c.msg_curr_pos < c.rx_buff_len
                      THEN [w EXCEPT !.c.rx_buff[c.msg_curr_pos + 1] = ch]
                      ELSE w
                w2 == [w1 EXCEPT !.c.msg_curr_pos = U32(@ + 1)]
            IN IF w2.c.msg_curr_pos + 1 = w2.c.msg_rem_len
               THEN ParseLinear(
                      [(IF w2.c.msg_curr_pos <= w2.c.rx_buff_len
                        THEN prv_mqtt_process_incoming_message(w2, w2.c.rx_buff, u, sendok)
                        ELSE w2)
                         EXCEPT !.c.parser_state = MQTT_PARSER_STATE_INIT],
                      d, idx + 1, u, sendok)
               ELSE ParseLinear(w2, d, idx + 1, u, sendok)
       ELSE ParseLinear([w EXCEPT !.c.parser_state = MQTT_PARSER_STATE_INIT],
                        d, idx + 1, u, sendok)

ParseLinear(w, d, idx, u, sendok) ==
    IF idx >= Len(d) THEN w
    ELSE
    LET ch == d[idx + 1]
        c == w.c
    IN IF c.parser_state = MQTT_PARSER_STATE_INIT
       THEN ParseLinear([w EXCEPT !.c.msg_hdr_byte = ch,
                                  !.c.msg_rem_len = 0,
                                  !.c.msg_rem_len_mult = 0,
                                  !.c.msg_curr_pos = 0,
                                  !.c.parser_state = MQTT_PARSER_STATE_CALC_REM_LEN],
                        d, idx + 1, u, sendok)
       ELSE IF c.parser_state = MQTT_PARSER_STATE_CALC_REM_LEN
       THEN LET shifted == IF \/ c.msg_rem_len_mult <= 3
                              \/ (c.msg_rem_len_mult = 4 /\ ch % 128 < 8)
                           THEN (ch % 128) * Pow2(7 * c.msg_rem_len_mult)
                           ELSE u
                rem_len == BitOr(c.msg_rem_len, shifted)
                w1 == [w EXCEPT !.c.msg_rem_len = rem_len,
                                !.c.msg_rem_len_mult = LWCELL_U8(@ + 1)]
            IN IF ch >= 128
               THEN ParseLinear(w1, d, idx + 1, u, sendok)
               ELSE IF rem_len > 0
               THEN IF Len(d) - idx > rem_len
                    THEN ParseLinear(
                           [prv_mqtt_process_incoming_message(
                                w1, SubSeq(d, idx + 2, Len(d)), u, sendok)
                              EXCEPT !.c.parser_state = MQTT_PARSER_STATE_INIT],
                           d, idx + rem_len + 1, u, sendok)
                    ELSE ParseLinear(
                           [w1 EXCEPT !.c.parser_state = MQTT_PARSER_STATE_READ_REM],
                           d, idx + 1, u, sendok)
               ELSE ParseLinear(
                      [prv_mqtt_process_incoming_message(w1, w1.c.rx_buff, u, sendok)
                         EXCEPT !.c.parser_state = MQTT_PARSER_STATE_INIT],
                      d, idx + 1, u, sendok)
       ELSE IF c.parser_state = MQTT_PARSER_STATE_READ_REM
       THEN LET w1 == IF c.msg_curr_pos < c.rx_buff_len
                      THEN [w EXCEPT !.c.rx_buff[c.msg_curr_pos + 1] = ch]
                      ELSE w
                w2 == [w1 EXCEPT !.c.msg_curr_pos = U32(@ + 1)]
            IN IF w2.c.msg_curr_pos = w2.c.msg_rem_len
               THEN ParseLinear(
                      [(IF w2.c.msg_curr_pos <= w2.c.rx_buff_len
                        THEN prv_mqtt_process_incoming_message(w2, w2.c.rx_buff, u, sendok)
                        ELSE w2)
                         EXCEPT !.c.parser_state = MQTT_PARSER_STATE_INIT],
                      d, idx + 1, u, sendok)
               ELSE ParseLinear(w2, d, idx + 1, u, sendok)
       ELSE ParseLinear([w EXCEPT !.c.parser_state = MQTT_PARSER_STATE_INIT],
                        d, idx + 1, u, sendok)

\* prv_mqtt_parse_incoming: pbuf is the sequence of the linear blocks that
\* lwcell_pbuf_get_linear_addr returns at growing offsets
RECURSIVE prv_mqtt_parse_incoming(_, _, _, _)
prv_mqtt_parse_incoming(w, pbuf, u, sendok) ==
    IF pbuf = <<>> THEN w
    ELSE prv_mqtt_parse_incoming(ParseLinear(w, Head(pbuf), 0, u, sendok),
                                 Tail(pbuf), u, sendok)

\* prv_mqtt_data_recv_cb
prv_mqtt_data_recv_cb(w, pbuf, u, sendok) ==
    prv_mqtt_parse_incoming(w, pbuf, u, sendok)

(***************************************************************************)
(* Connection callbacks.                                                   *)
(***************************************************************************)
\* prv_mqtt_connected_cb
prv_mqtt_connected_cb(w, sendok) ==
    LET info == w.c.info
        has_will == info.will_topic # Null /\ info.will_message # Null
        has_user == info.user # Null
        has_pass == info.pass # Null
        flags == MQTT_FLAG_CONNECT_CLEAN_SESSION
                 + (IF has_will
                    THEN MQTT_FLAG_CONNECT_WILL + LWCELL_MIN(LWCELL_U8(info.will_qos), 2) * 8
                    ELSE 0)
                 + (IF has_user THEN MQTT_FLAG_CONNECT_USERNAME ELSE 0)
                 + (IF has_pass THEN MQTT_FLAG_CONNECT_PASSWORD ELSE 0)
        len_id == LWCELL_U16(Len(info.id))
        len_will_topic == IF has_will THEN LWCELL_U16(Len(info.will_topic)) ELSE 0
        len_will_message == IF has_will THEN LWCELL_U16(Len(info.will_message)) ELSE 0
        len_user == IF has_user THEN LWCELL_U16(Len(info.user)) ELSE 0
        len_pass == IF has_pass THEN LWCELL_U16(Len(info.pass)) ELSE 0
        rem_len == LWCELL_U16(10 + len_id + 2
                     + (IF has_will THEN len_will_topic + 2 + len_will_message + 2 ELSE 0)
                     + (IF has_user THEN len_user + 2 ELSE 0)
                     + (IF has_pass THEN len_pass + 2 ELSE 0))
        w1 == prv_write_fixed_header(w, MQTT_MSG_TYPE_CONNECT, 0, 0, 0, rem_len)
        w2 == prv_write_string(w1, <<77, 81, 84, 84>>, 4)
        w3 == prv_write_u16(prv_write_u8(prv_write_u8(w2, 4), flags), info.keep_alive)
        w4 == prv_write_string(w3, info.id, len_id)
        w5 == IF has_will
              THEN prv_write_string(
                     prv_write_string(w4, info.will_topic, len_will_topic),
                     info.will_message, len_will_message)
              ELSE w4
        w6 == IF has_user THEN prv_write_string(w5, info.user, len_user) ELSE w5
        w7 == IF has_pass THEN prv_write_string(w6, info.pass, len_pass) ELSE w6
    IN IF prv_output_check_enough_memory(w.c, rem_len) = 0
       THEN w
       ELSE prv_send_data(
              [w7 EXCEPT !.c.parser_state = MQTT_PARSER_STATE_INIT,
                         !.c.poll_time = 0,
                         !.c.conn_state = LWCELL_MQTT_CONNECTING],
              sendok)

\* the while loop of prv_mqtt_data_sent_cb that retires the publishes without QoS
RECURSIVE RetireSent(_)
RetireSent(w) ==
    LET i == prv_request_get_pending(w.c, 0)
    IN IF i # NoRequest /\ w.c.sent_total >= w.c.requests[i].expected_sent_len
       THEN RetireSent(EvtFn(prv_request_delete(w, i),
                             [EvtBase EXCEPT !.type = "PUBLISH",
                                             !.arg = w.c.requests[i].arg,
                                             !.res = "OK"]))
       ELSE w

\* prv_mqtt_data_sent_cb without the final prv_send_data
SentCbNoSendMore(w, sent_len, successful, closeok, sendok) ==
    LET w1 == [w EXCEPT !.c.is_sending = 0,
                        !.c.sent_total = U32(@ + sent_len),
                        !.c.poll_time = 0]
    IN IF ~successful
       THEN [prv_mqtt_close(w1, closeok) EXCEPT !.r = 0]
       ELSE [RetireSent([w1 EXCEPT !.c.tx_buff = BuffSkip(@, sent_len)])
               EXCEPT !.r = 1]

\* prv_mqtt_data_sent_cb
prv_mqtt_data_sent_cb(w, sent_len, successful, closeok, sendok) ==
    LET w1 == [w EXCEPT !.c.is_sending = 0,
                        !.c.sent_total = U32(@ + sent_len),
                        !.c.poll_time = 0]
    IN IF ~successful
       THEN [prv_mqtt_close(w1, closeok) EXCEPT !.r = 0]
       ELSE [prv_send_data(
               RetireSent([w1 EXCEPT !.c.tx_buff = BuffSkip(@, sent_len)]),
               sendok) EXCEPT !.r = 1]

\* prv_mqtt_poll_cb that resets poll_time whether the PINGREQ fits or not
PollCbAlwaysReset(w, sendok) ==
    LET w1 == [w EXCEPT !.c.poll_time = U32(@ + 1)]
    IN IF w1.c.conn_state = LWCELL_MQTT_CONN_DISCONNECTING
       THEN [w1 EXCEPT !.r = 0]
       ELSE IF /\ w1.c.info.keep_alive # 0
               /\ U32(w1.c.poll_time * LWCELL_CFG_CONN_POLL_INTERVAL)
                    >= U32(w1.c.info.keep_alive * 1000)
       THEN IF prv_output_check_enough_memory(w1.c, 0) # 0
            THEN [prv_send_data(
                    prv_write_fixed_header(w1, MQTT_MSG_TYPE_PINGREQ, 0, 0, 0, 0), sendok)
                  EXCEPT !.c.poll_time = 0, !.r = 1]
            ELSE [w1 EXCEPT !.c.poll_time = 0, !.r = 1]
       ELSE [w1 EXCEPT !.r = 1]

\* prv_mqtt_poll_cb
prv_mqtt_poll_cb(w, sendok) ==
    LET w1 == [w EXCEPT !.c.poll_time = U32(@ + 1)]
    IN IF w1.c.conn_state = LWCELL_MQTT_CONN_DISCONNECTING
       THEN [w1 EXCEPT !.r = 0]
       ELSE IF /\ w1.c.info.keep_alive # 0
               /\ U32(w1.c.poll_time * LWCELL_CFG_CONN_POLL_INTERVAL)
                    >= U32(w1.c.info.keep_alive * 1000)
               /\ prv_output_check_enough_memory(w1.c, 0) # 0
       THEN [prv_send_data(
               prv_write_fixed_header(w1, MQTT_MSG_TYPE_PINGREQ, 0, 0, 0, 0), sendok)
             EXCEPT !.c.poll_time = 0, !.r = 1]
       ELSE [w1 EXCEPT !.r = 1]

\* the while loop of prv_mqtt_closed_cb over the pending requests
RECURSIVE FailPending(_)
FailPending(w) ==
    LET i == prv_request_get_pending(w.c, -1)
    IN IF i # NoRequest
       THEN FailPending(prv_request_send_err_callback(
                            prv_request_delete(w, i),
                            w.c.requests[i].status, w.c.requests[i].arg))
       ELSE w

\* a request slot after LWCELL_MEMSET(.., 0x00, ..) or calloc
RequestZero == [status |-> 0, packet_id |-> 0, arg |-> 0, expected_sent_len |-> 0]

\* prv_mqtt_closed_cb without the error callbacks of the pending requests
ClosedCbNoErrCallbacks(w) ==
    LET state == w.c.conn_state
        w1 == EvtFn([w EXCEPT !.c.conn_state = LWCELL_MQTT_CONN_DISCONNECTED],
                    [EvtBase EXCEPT
                       !.type = "DISCONNECT",
                       !.is_accepted = (state = LWCELL_MQTT_CONNECTED
                                        \/ state = LWCELL_MQTT_CONN_DISCONNECTING)])
    IN [w1 EXCEPT !.c.requests = [i \in Slots |-> RequestZero],
                  !.c.is_sending = 0,
                  !.c.sent_total = 0,
                  !.c.written_total = 0,
                  !.c.parser_state = MQTT_PARSER_STATE_INIT,
                  !.c.tx_buff = BuffReset(@),
                  !.r = 1]

\* prv_mqtt_closed_cb without lwcell_buff_reset
ClosedCbNoBuffReset(w) ==
    LET state == w.c.conn_state
        w1 == EvtFn([w EXCEPT !.c.conn_state = LWCELL_MQTT_CONN_DISCONNECTED],
                    [EvtBase EXCEPT
                       !.type = "DISCONNECT",
                       !.is_accepted = (state = LWCELL_MQTT_CONNECTED
                                        \/ state = LWCELL_MQTT_CONN_DISCONNECTING)])
        w2 == FailPending(w1)
    IN [w2 EXCEPT !.c.requests = [i \in Slots |-> RequestZero],
                  !.c.is_sending = 0,
                  !.c.sent_total = 0,
                  !.c.written_total = 0,
                  !.c.parser_state = MQTT_PARSER_STATE_INIT,
                  !.r = 1]

\* prv_mqtt_closed_cb that accepts only from LWCELL_MQTT_CONNECTED
ClosedCbAcceptedIfConnected(w) ==
    LET state == w.c.conn_state
        w1 == EvtFn([w EXCEPT !.c.conn_state = LWCELL_MQTT_CONN_DISCONNECTED],
                    [EvtBase EXCEPT
                       !.type = "DISCONNECT",
                       !.is_accepted = (state = LWCELL_MQTT_CONNECTED)])
        w2 == FailPending(w1)
    IN [w2 EXCEPT !.c.requests = [i \in Slots |-> RequestZero],
                  !.c.is_sending = 0,
                  !.c.sent_total = 0,
                  !.c.written_total = 0,
                  !.c.parser_state = MQTT_PARSER_STATE_INIT,
                  !.c.tx_buff = BuffReset(@),
                  !.r = 1]

\* prv_mqtt_closed_cb
prv_mqtt_closed_cb(w) ==
    LET state == w.c.conn_state
        w1 == EvtFn([w EXCEPT !.c.conn_state = LWCELL_MQTT_CONN_DISCONNECTED],
                    [EvtBase EXCEPT
                       !.type = "DISCONNECT",
                       !.is_accepted = (state = LWCELL_MQTT_CONNECTED
                                        \/ state = LWCELL_MQTT_CONN_DISCONNECTING)])
        w2 == FailPending(w1)
    IN [w2 EXCEPT !.c.requests = [i \in Slots |-> RequestZero],
                  !.c.is_sending = 0,
                  !.c.sent_total = 0,
                  !.c.written_total = 0,
                  !.c.parser_state = MQTT_PARSER_STATE_INIT,
                  !.c.tx_buff = BuffReset(@),
                  !.r = 1]

\* case LWCELL_EVT_CONN_ERROR that reports the failure as a disconnect
ConnErrorCbAsDisconnect(w) ==
    EvtFn([w EXCEPT !.c.conn_state = LWCELL_MQTT_CONN_DISCONNECTED],
          [EvtBase EXCEPT !.type = "DISCONNECT"])

\* case LWCELL_EVT_CONN_ERROR of prv_mqtt_conn_cb
ConnErrorCb(w) ==
    EvtFn([w EXCEPT !.c.conn_state = LWCELL_MQTT_CONN_DISCONNECTED],
          [EvtBase EXCEPT !.type = "CONNECT",
                          !.status = LWCELL_MQTT_CONN_STATUS_TCP_FAILED])

(***************************************************************************)
(* The API.                                                                *)
(***************************************************************************)
\* lwcell_mqtt_client_new
lwcell_mqtt_client_new(tx_buff_len, rx_buff_len) ==
    [conn_state |-> LWCELL_MQTT_CONN_DISCONNECTED,
     info |-> [id |-> <<>>, will_topic |-> Null, will_message |-> Null,
               will_qos |-> 0, user |-> Null, pass |-> Null, keep_alive |-> 0],
     poll_time |-> 0,
     tx_buff |-> BuffInit(tx_buff_len),
     is_sending |-> 0,
     sent_total |-> 0,
     written_total |-> 0,
     last_packet_id |-> 0,
     requests |-> [i \in Slots |-> RequestZero],
     rx_buff |-> [k \in 1 .. rx_buff_len |-> -1],
     rx_buff_len |-> rx_buff_len,
     parser_state |-> 0,
     msg_hdr_byte |-> 0,
     msg_rem_len |-> 0,
     msg_rem_len_mult |-> 0,
     msg_curr_pos |-> 0]

\* lwcell_mqtt_client_connect without the test of the session state
ConnectAnyState(w, info, attached, startok) ==
    IF attached
    THEN IF startok
         THEN [w EXCEPT !.c.info = info,
                        !.c.conn_state = LWCELL_MQTT_CONN_CONNECTING,
                        !.t.phase = "starting",
                        !.r = "OK"]
         ELSE [w EXCEPT !.c.info = info, !.r = "ERR"]
    ELSE [w EXCEPT !.r = "ERR"]

\* lwcell_mqtt_client_connect; attached is lwcell_network_is_attached() and
\* startok is whether lwcell_conn_start returns lwcellOK
lwcell_mqtt_client_connect(w, info, attached, startok) ==
    IF attached /\ w.c.conn_state = LWCELL_MQTT_CONN_DISCONNECTED
    THEN IF startok
         THEN [w EXCEPT !.c.info = info,
                        !.c.conn_state = LWCELL_MQTT_CONN_CONNECTING,
                        !.t.phase = "starting",
                        !.r = "OK"]
         ELSE [w EXCEPT !.c.info = info, !.r = "ERR"]
    ELSE [w EXCEPT !.r = "ERR"]

\* lwcell_mqtt_client_disconnect
lwcell_mqtt_client_disconnect(w, closeok) ==
    IF /\ w.c.conn_state # LWCELL_MQTT_CONN_DISCONNECTED
       /\ w.c.conn_state # LWCELL_MQTT_CONN_DISCONNECTING
    THEN prv_mqtt_close(w, closeok)
    ELSE [w EXCEPT !.r = "ERR"]

\* lwcell_mqtt_client_subscribe
lwcell_mqtt_client_subscribe(w, topic, qos, arg, sendok) ==
    LET w1 == prv_sub_unsub(w, topic, qos, arg, 1, sendok)
    IN [w1 EXCEPT !.r = IF w1.r = 1 THEN "OK" ELSE "ERR"]

\* lwcell_mqtt_client_unsubscribe
lwcell_mqtt_client_unsubscribe(w, topic, arg, sendok) ==
    LET w1 == prv_sub_unsub(w, topic, 0, arg, 0, sendok)
    IN [w1 EXCEPT !.r = IF w1.r = 1 THEN "OK" ELSE "ERR"]

\* lwcell_mqtt_client_publish; payload is Null or the payload bytes
lwcell_mqtt_client_publish(w, topic, payload, payload_len, qos, retain, arg, sendok) ==
    LET qos_u8 == LWCELL_U8(qos)
        len_topic == LWCELL_U16(Len(topic))
        rem_len == U32(2 + len_topic + (IF payload # Null THEN payload_len ELSE 0)
                         + (IF qos_u8 > 0 THEN 2 ELSE 0))
        raw_len == prv_output_check_enough_memory(w.c, rem_len)
        w1 == IF qos_u8 > 0 THEN prv_create_packet_id(w) ELSE w
        pkt_id == IF qos_u8 > 0 THEN w1.c.last_packet_id ELSE 0
        w2 == prv_request_create(w1, pkt_id, arg)
        i == w2.r
        w3 == [w2 EXCEPT !.c.requests[i].expected_sent_len =
                            U32(w.c.written_total + raw_len)]
        w4 == prv_write_string(
                prv_write_fixed_header(w3, MQTT_MSG_TYPE_PUBLISH, 0,
                                       LWCELL_MIN(qos_u8, 2), retain, rem_len),
                topic, len_topic)
        w5 == IF qos_u8 # 0 THEN prv_write_u16(w4, pkt_id) ELSE w4
        w6 == IF payload # Null /\ payload_len > 0
              THEN prv_write_data(w5, SubSeq(payload, 1, payload_len))
              ELSE w5
        w7 == prv_send_data(prv_request_set_pending(w6, i), sendok)
    IN IF len_topic = 0 THEN [w EXCEPT !.r = "ERR"]
       ELSE IF w.c.conn_state # LWCELL_MQTT_CONNECTED THEN [w EXCEPT !.r = "CLOSED"]
       ELSE IF raw_len # 0
       THEN IF i # NoRequest THEN [w7 EXCEPT !.r = "OK"] ELSE [w2 EXCEPT !.r = "ERRMEM"]
       ELSE [w EXCEPT !.r = "ERRMEM"]

(***************************************************************************)
(* Inputs.                                                                 *)
(***************************************************************************)
\* the topic "t"
TopicT == <<116>>

\* a session descriptor: client id "a", nothing else, keep-alive k seconds
InfoA(k) ==
    [id |-> <<97>>, will_topic |-> Null, will_message |-> Null, will_qos |-> 0,
     user |-> Null, pass |-> Null, keep_alive |-> k]

\* session descriptors given to connect
Infos == {InfoA(1)}

\* session descriptors where the keep-alive is walked: none, 1 s and 10 s
InfosPoll == {InfoA(0), InfoA(1), InfoA(10)}

\* session descriptors where the length of CONNECT is walked: the client
\* ids "a" and "ab", and the client id "a" with a user name of LongUserLen
\* bytes
InfoIdAb == [InfoA(1) EXCEPT !.id = <<97, 98>>]

InfoLongUser == [InfoA(1) EXCEPT !.user = [k \in 1 .. LongUserLen |-> 117]]

InfosConn == {InfoA(1), InfoIdAb, InfoLongUser}

\* the session descriptor of the example: client id "abc", keep-alive 60 s
InfoAbc60 == [InfoA(60) EXCEPT !.id = <<97, 98, 99>>]

\* session descriptors where the bytes of CONNECT are compared: the client
\* ids "a" and "abc", no will, a will topic "w" or a will message "m" alone,
\* both with every will QoS, with and without the user name "u" and the
\* password "p", keep-alives of one and of two bytes; and the long user name
InfosFmt ==
    { [id |-> id, will_topic |-> wt, will_message |-> wm, will_qos |-> wq,
       user |-> us, pass |-> pw, keep_alive |-> ka] :
        id \in {<<97>>, <<97, 98, 99>>}, wt \in {Null, <<119>>}, wm \in {Null, <<109>>},
        wq \in {0, 1, 2, 3}, us \in {Null, <<117>>}, pw \in {Null, <<112>>},
        ka \in {60, 300} }
      \cup {InfoLongUser}

\* arguments of publish
PubInputs ==
    { [topic |-> TopicT, payload |-> Null, qos |-> q, retain |-> 0] : q \in {0, 1} }

\* arguments of publish where the packet identifiers are walked
PubInputsIds ==
    { [topic |-> TopicT, payload |-> Null, qos |-> q, retain |-> 0] : q \in {0, 1, 2} }

\* arguments of publish without QoS
PubInputsQos0 == { in \in PubInputs : in.qos = 0 }

\* a payload of BigPayloadLen bytes "x"
BigPayload == [k \in 1 .. BigPayloadLen |-> 120]

\* arguments of publish where the lengths are walked: no payload, one byte
\* and the long payload
PubInputsLen ==
    { [topic |-> TopicT, payload |-> p, qos |-> q, retain |-> 0] :
        p \in {Null, <<120>>, BigPayload}, q \in {0, 1} }

U16Bytes(n) == <<n \div 256, n % 256>>

\* packets of the broker
PktConnack(code) == <<32, 2, 0, code>>
PktPuback(p) == <<64, 2>> \o U16Bytes(p)
PktSuback(p, rc) == <<144, 3>> \o U16Bytes(p) \o <<rc>>
PktUnsuback(p) == <<176, 2>> \o U16Bytes(p)
PktPubcomp(p) == <<112, 2>> \o U16Bytes(p)
PktPubrec(p) == <<80, 2>> \o U16Bytes(p)
PktPubrel(p) == <<98, 2>> \o U16Bytes(p)
\* PUBLISH with dup, QoS 2, retain, packet id 5, topic "t" and payload "xy"
PktPublishQos2 == <<61, 7, 0, 1, 116, 0, 5, 120, 121>>
\* PUBLISH with QoS 1, packet id 5, topic "t" and payload "x"
PktPublishQos1 == <<50, 6, 0, 1, 116, 0, 5, 120>>

\* PUBLISH with the flags, the topic, the packet id (QoS above 0 only) and the
\* payload; the remaining length takes one, two or three bytes
PktPublish(dup, qos, retain, topic, p, payload) ==
    LET body == U16Bytes(Len(topic)) \o topic
                  \o (IF qos > 0 THEN U16Bytes(p) ELSE <<>>) \o payload
        n == Len(body)
    IN << 48 + 8 * dup + 2 * qos + retain >>
         \o (IF n < 128 THEN << n >>
             ELSE IF n < 16384 THEN << 128 + (n % 128), n \div 128 >>
             ELSE << 128 + (n % 128), 128 + ((n \div 128) % 128), n \div 16384 >>)
         \o body

\* PUBLISH without QoS whose payload is two bytes longer than BigPayload
PktPublishLong == PktPublish(0, 0, 0, TopicT, 0, BigPayload \o <<120, 120>>)

\* what the broker sends, each packet in one linear block
Pbufs ==
    { <<p>> : p \in {PktConnack(0), PktConnack(5), PktSuback(1, 0), PktPublishQos1} }

\* what the broker sends where the lengths are walked
PbufsLen == Pbufs \cup { << PktPublishLong >> }

\* what the broker sends where only the publish path is walked
PbufsPub == { <<p>> : p \in {PktConnack(0), PktPublishQos1} }

\* what the broker sends where the packet identifiers are walked
PbufsIds == { <<p>> : p \in {PktConnack(0), PktSuback(MaxPktId, 0)} }

\* what the broker sends where the handshakes of QoS 2 are walked: inbound
\* PUBLISH and PUBREL with the packet id 5, and PUBREC and PUBCOMP for the
\* first packet id the client draws
PbufsQos2 ==
    { <<p>> : p \in {PktConnack(0), PktPublishQos2, PktPubrel(5), PktPubrec(1),
                     PktPubcomp(1)} }

\* arguments of publish with QoS 2
PubInputsQos2 == { in \in PubInputsIds : in.qos = 2 }

\* PUBLISH without QoS, topic "t" and payload "x"
PktPublishQos0 == <<48, 4, 0, 1, 116, 120>>

PktPingresp == <<208, 0>>

\* the packets of the broker whose delivery is split over linear blocks and
\* receive events
RxPackets ==
    {PktConnack(0), PktConnack(5), PktSuback(1, 0), PktPingresp,
     PktPublishQos0, PktPublishQos1}

\* the ways to hand the bytes p over in one receive event: one linear block,
\* or two
PbufsOf(p) ==
    { <<p>> } \cup { <<SubSeq(p, 1, k), SubSeq(p, k + 1, Len(p))>> : k \in 1 .. (Len(p) - 1) }

\* the remaining lengths handed to the writer of the fixed header: the ends
\* of the ranges that take one, two, three and four bytes, and the ends of
\* the range of a uint16_t
HdrRemLens ==
    {0, 1, 127, 128, 16383, 16384, 65535, 65536, 2097151, 2097152, 268435455}

\* the arguments of prv_write_fixed_header: every packet type, every flag
HdrInputs ==
    [type : MQTT_MSG_TYPE_CONNECT .. MQTT_MSG_TYPE_DISCONNECT,
     dup : {0, 1}, qos : {0, 1, 2}, retain : {0, 1}, rem_len : HdrRemLens]

\* the byte an undefined read yields
UndefBytes == {0, 255}

\* the answers of lwcell_conn_send
SendResults == BOOLEAN

\* the users' arguments of one session
ArgIds == 1 .. (IF MaxArgs > MaxArgsPub THEN MaxArgs ELSE MaxArgsPub)

\* The limits of the inputs: ids are the values of last_packet_id at which a
\* call that draws a packet identifier is made, args the requests of one
\* session, stream the bytes written to the TX buffer in one session, send the
\* answers of lwcell_conn_send and ok the results a send-complete reports.
Lim ==
    [ids |-> 0 .. (MaxPktId - 1), args |-> MaxArgs, stream |-> MaxStream,
     send |-> SendResults, ok |-> BOOLEAN]

LimPub ==
    [ids |-> 0 .. (MaxPktId - 1), args |-> MaxArgsPub, stream |-> MaxStreamPub,
     send |-> {TRUE}, ok |-> {TRUE}]

LimIds ==
    [ids |-> (0 .. (MaxPktId - 1)) \cup {65535}, args |-> MaxArgsPub,
     stream |-> MaxStreamIds, send |-> {TRUE}, ok |-> {TRUE}]

LimRx ==
    [ids |-> {0}, args |-> 1, stream |-> MaxStreamRx, send |-> {TRUE}, ok |-> {TRUE}]

LimLen ==
    [ids |-> 0 .. (MaxPktId - 1), args |-> MaxArgs, stream |-> MaxStream,
     send |-> {TRUE}, ok |-> {TRUE}]

LimPoll ==
    [ids |-> {0}, args |-> 0, stream |-> MaxStream, send |-> SendResults, ok |-> {TRUE}]

LimQos2 == [LimLen EXCEPT !.stream = MaxStreamQos2]

LimWrap == [LimIds EXCEPT !.ids = {65535}]

LimWalk == [LimIds EXCEPT !.ids = MaxPktId .. 65534]

(***************************************************************************)
(* The state machine.                                                      *)
(***************************************************************************)
GhostInit ==
    [skipped |-> 0, nextarg |-> 1, pub_end |-> [a \in ArgIds |-> 0],
     fail_close |-> FALSE, written |-> <<>>, wire |-> <<>>,
     done |-> [a \in ArgIds |-> 0]]

\* the events that complete a request
CompletionTypes == {"PUBLISH", "SUBSCRIBE", "UNSUBSCRIBE"}

\* the number of the completion events of evs with the user argument a
Completions(evs, a) ==
    Cardinality({ k \in 1 .. Len(evs) :
                    evs[k].type \in CompletionTypes /\ evs[k].arg = a })

LastOf(op, res) == [op |-> op, res |-> res, successful |-> FALSE, after_fail |-> FALSE]

Init ==
    /\ client = lwcell_mqtt_client_new(TxBuffLen, RxBuffLen)
    /\ transport = [phase |-> "none", closing |-> FALSE, inflight |-> <<>>]
    /\ evts = <<>>
    /\ last = LastOf("new", "-")
    /\ ghost = GhostInit
    /\ sessions = 0

\* the world a handler starts in
World == [c |-> client, t |-> transport, e |-> <<>>, r |-> 0]

\* whether lwcell_conn_close can return lwcellOK: the connection is active and
\* not closing yet
CloseResults == IF transport.phase = "active" /\ ~transport.closing
                THEN BOOLEAN ELSE {FALSE}

\* bytes written to the TX buffer in this session
Stream == ghost.skipped + Len(client.tx_buff.data)

Connect(infos) ==
    /\ sessions < MaxSessions
    /\ \E info \in infos, attached \in BOOLEAN, startok \in BOOLEAN :
         LET w == lwcell_mqtt_client_connect(World, info, attached, startok)
         IN /\ client' = w.c
            /\ transport' = w.t
            /\ evts' = w.e
            /\ last' = LastOf("connect", w.r)
            /\ ghost' = ghost
            /\ sessions' = IF w.r = "OK" THEN sessions + 1 ELSE sessions

Disconnect ==
    \E closeok \in CloseResults :
      LET w == lwcell_mqtt_client_disconnect(World, closeok)
      IN /\ client' = w.c
         /\ transport' = w.t
         /\ evts' = w.e
         /\ last' = LastOf("disconnect", w.r)
         /\ UNCHANGED <<ghost, sessions>>

\* the ghost state after a handler that started with the TX buffer b0 and the
\* blocks in flight f0: the bytes it wrote to the TX buffer and the blocks it
\* handed to the transport are recorded
GhostIo(g, w, b0, f0) ==
    [g EXCEPT !.written = @ \o SubSeq(w.c.tx_buff.data, Len(b0.data) + 1,
                                      Len(w.c.tx_buff.data)),
              !.wire = IF Len(w.t.inflight) > Len(f0)
                       THEN @ \o w.t.inflight[Len(w.t.inflight)] ELSE @,
              !.done = [a \in ArgIds |-> @[a] + Completions(w.e, a)]]

\* the ghost state after an API call that may have created a request
GhostAfterRequest(w, qos0) ==
    GhostIo(IF w.r = "OK"
            THEN [ghost EXCEPT !.nextarg = @ + 1,
                               !.pub_end[ghost.nextarg] =
                                   IF qos0 THEN ghost.skipped + Len(w.c.tx_buff.data) ELSE 0]
            ELSE ghost,
            w, client.tx_buff, transport.inflight)

Subscribe(lim) ==
    /\ Stream <= lim.stream
    /\ ghost.nextarg <= lim.args
    /\ client.last_packet_id \in lim.ids
    /\ \E qos \in {1}, sendok \in lim.send :
         LET w == lwcell_mqtt_client_subscribe(World, TopicT, qos, ghost.nextarg, sendok)
         IN /\ client' = w.c
            /\ transport' = w.t
            /\ evts' = w.e
            /\ last' = LastOf("subscribe", w.r)
            /\ ghost' = GhostAfterRequest(w, FALSE)
            /\ UNCHANGED sessions

Unsubscribe(lim) ==
    /\ Stream <= lim.stream
    /\ ghost.nextarg <= lim.args
    /\ client.last_packet_id \in lim.ids
    /\ \E sendok \in lim.send :
         LET w == lwcell_mqtt_client_unsubscribe(World, TopicT, ghost.nextarg, sendok)
         IN /\ client' = w.c
            /\ transport' = w.t
            /\ evts' = w.e
            /\ last' = LastOf("unsubscribe", w.r)
            /\ ghost' = GhostAfterRequest(w, FALSE)
            /\ UNCHANGED sessions

Publish(inputs, lim) ==
    /\ Stream <= lim.stream
    /\ ghost.nextarg <= lim.args
    /\ \E in \in inputs, sendok \in lim.send :
         /\ in.qos > 0 => client.last_packet_id \in lim.ids
         /\ LET w == lwcell_mqtt_client_publish(World, in.topic, in.payload,
                        IF in.payload = Null THEN 0 ELSE Len(in.payload),
                        in.qos, in.retain, ghost.nextarg, sendok)
            IN /\ client' = w.c
               /\ transport' = w.t
               /\ evts' = w.e
               /\ last' = LastOf("publish", w.r)
               /\ ghost' = GhostAfterRequest(w, in.qos = 0)
               /\ UNCHANGED sessions

\* LWCELL_EVT_CONN_ERROR: the connection could not be started
ConnError ==
    /\ transport.phase = "starting"
    /\ LET w == ConnErrorCb(World)
       IN /\ client' = w.c
          /\ transport' = [w.t EXCEPT !.phase = "none"]
          /\ evts' = w.e
          /\ last' = LastOf("error", "-")
          /\ UNCHANGED <<ghost, sessions>>

\* LWCELL_EVT_CONN_ACTIVE
ConnActive(lim) ==
    /\ transport.phase = "starting"
    /\ \E sendok \in lim.send :
         LET w == prv_mqtt_connected_cb([World EXCEPT !.t.phase = "active"], sendok)
         IN /\ client' = w.c
            /\ transport' = w.t
            /\ evts' = w.e
            /\ last' = LastOf("active", "-")
            /\ ghost' = GhostIo(ghost, w, client.tx_buff, transport.inflight)
            /\ UNCHANGED sessions

\* LWCELL_EVT_CONN_RECV
ConnRecv(pbufs, lim) ==
    /\ transport.phase = "active"
    /\ Stream <= lim.stream
    /\ \E pbuf \in pbufs, u \in UndefBytes, sendok \in lim.send :
         LET w == prv_mqtt_data_recv_cb(World, pbuf, u, sendok)
         IN /\ client' = w.c
            /\ transport' = w.t
            /\ evts' = w.e
            /\ last' = LastOf("recv", "-")
            /\ ghost' = GhostIo(ghost, w, client.tx_buff, transport.inflight)
            /\ UNCHANGED sessions

\* LWCELL_EVT_CONN_SEND: the transport reports the oldest block handed to it;
\* a successful report carries the length of the block, a failed one the
\* part of it that was sent
ConnSend(lim) ==
    /\ transport.phase = "active"
    /\ transport.inflight # <<>>
    /\ \E successful \in lim.ok, closeok \in CloseResults, sendok \in lim.send :
       \E sent_len \in (IF successful THEN {Len(Head(transport.inflight))}
                        ELSE {0, Len(Head(transport.inflight))}) :
         LET w == prv_mqtt_data_sent_cb([World EXCEPT !.t.inflight = Tail(@)],
                                        sent_len, successful, closeok, sendok)
         IN /\ successful \/ client.written_total <= MaxWritten
            /\ client' = w.c
            /\ transport' = w.t
            /\ evts' = w.e
            /\ last' = [LastOf("sent", "-") EXCEPT !.successful = successful]
            /\ ghost' = [ghost EXCEPT
                           !.skipped = IF successful
                                       THEN @ + Len(client.tx_buff.data)
                                              - Len(w.c.tx_buff.data)
                                       ELSE @,
                           !.fail_close = @ \/ (~successful /\ w.t.closing
                                                  /\ ~transport.closing),
                           !.wire = IF w.t.inflight # <<>>
                                    THEN @ \o w.t.inflight[1] ELSE @,
                           !.done = [a \in ArgIds |-> @[a] + Completions(w.e, a)]]
            /\ UNCHANGED sessions

\* LWCELL_EVT_CONN_POLL while poll_time is below maxpoll
ConnPollUpTo(lim, maxpoll) ==
    /\ transport.phase = "active"
    /\ Stream <= lim.stream
    /\ client.poll_time < maxpoll
    /\ \E sendok \in lim.send :
         LET w == prv_mqtt_poll_cb(World, sendok)
         IN /\ client' = w.c
            /\ transport' = w.t
            /\ evts' = w.e
            /\ last' = LastOf("poll", "-")
            /\ ghost' = GhostIo(ghost, w, client.tx_buff, transport.inflight)
            /\ UNCHANGED sessions

\* LWCELL_EVT_CONN_POLL
ConnPoll(lim) == ConnPollUpTo(lim, MaxPoll)

\* LWCELL_EVT_CONN_CLOSE: the connection is gone, with the blocks handed to it
ConnClose ==
    /\ transport.phase = "active"
    /\ LET w == prv_mqtt_closed_cb(World)
       IN /\ client' = w.c
          /\ transport' = [phase |-> "none", closing |-> FALSE, inflight |-> <<>>]
          /\ evts' = w.e
          /\ last' = [LastOf("closed", "-") EXCEPT !.after_fail = ghost.fail_close]
          /\ ghost' = GhostInit
          /\ UNCHANGED sessions

Next ==
    \/ Connect(Infos)
    \/ Disconnect
    \/ Subscribe(Lim)
    \/ Unsubscribe(Lim)
    \/ Publish(PubInputs, Lim)
    \/ ConnError
    \/ ConnActive(Lim)
    \/ ConnRecv(Pbufs, Lim)
    \/ ConnSend(Lim)
    \/ ConnPoll(Lim)
    \/ ConnClose

Spec == Init /\ [][Next]_vars

\* The publish path alone: one session whose sends all succeed, with
\* publishes without QoS and the acknowledgements of inbound publishes.
NextPub ==
    \/ Connect(Infos)
    \/ ConnActive(LimPub)
    \/ ConnRecv(PbufsPub, LimPub)
    \/ ConnSend(LimPub)
    \/ Publish(PubInputsQos0, LimPub)

SpecPub == Init /\ [][NextPub]_vars

\* The walk over the 16-bit identifier counter: the first MaxRequests
\* subscriptions fill the registry; while it is full and nothing is queued,
\* every further subscribe call draws an identifier and fails; at 65535 every
\* kind of request is made.
IdleFull ==
    /\ \A i \in Slots : HasFlag(client.requests[i].status, MQTT_REQUEST_FLAG_IN_USE)
    /\ client.is_sending = 0
    /\ client.tx_buff.data = <<>>
    /\ ghost.nextarg = MaxRequests + 1

Counting == client.last_packet_id > MaxPktId /\ client.last_packet_id < 65535

NextIds ==
    \/ Connect(Infos)
    \/ ConnActive(LimIds)
    \/ ~Counting /\ ConnRecv(PbufsIds, LimIds)
    \/ ConnSend(LimIds)
    \/ Subscribe(LimIds)
    \/ Unsubscribe(LimWrap)
    \/ ~Counting /\ Publish(PubInputsIds, LimWrap)
    \/ IdleFull /\ Subscribe(LimWalk)

SpecIds == Init /\ [][NextIds]_vars

\* The split delivery of the broker's packets: the broker sends packets of
\* RxPackets one after the other and the transport hands their bytes over in
\* pieces.  The position of the parser tells which bytes of the packet in
\* delivery were handed over.
RxTaken ==
    IF client.parser_state = MQTT_PARSER_STATE_INIT THEN 0
    ELSE IF client.parser_state = MQTT_PARSER_STATE_CALC_REM_LEN THEN 1
    ELSE 2 + client.msg_curr_pos

\* the packets the bytes handed over so far are the start of
RxNow ==
    { p \in RxPackets :
        /\ RxTaken < Len(p)
        /\ RxTaken >= 1 => p[1] = client.msg_hdr_byte
        /\ RxTaken >= 2 => p[2] = client.msg_rem_len
        /\ \A k \in 3 .. RxTaken :
              k - 2 <= client.rx_buff_len => p[k] = client.rx_buff[k - 2] }

\* what one receive event can carry: some of the next bytes of the packet in
\* delivery, in one or two linear blocks
PbufsRxNow ==
    UNION { UNION { PbufsOf(SubSeq(p, RxTaken + 1, RxTaken + n)) :
                      n \in 1 .. (Len(p) - RxTaken) } : p \in RxNow }

NextRx ==
    \/ Connect(Infos)
    \/ ConnActive(LimRx)
    \/ ConnRecv(PbufsRxNow, LimRx)
    \/ ConnSend(LimRx)
    \/ Subscribe(LimRx)

SpecRx == Init /\ [][NextRx]_vars

\* The writers of the TX buffer with every length: one session whose sends
\* all succeed, with every kind of outbound packet.
NextLen ==
    \/ Connect(Infos)
    \/ ConnActive(LimLen)
    \/ ConnRecv(PbufsLen, LimLen)
    \/ ConnSend(LimLen)
    \/ ConnPoll(LimLen)
    \/ Subscribe(LimLen)
    \/ Unsubscribe(LimLen)
    \/ Publish(PubInputsLen, LimLen)

SpecLen == Init /\ [][NextLen]_vars

\* The keep-alive: sessions without keep-alive and with 1 s and 10 s, the
\* poll events counted up to MaxPollKa, and the disconnect request.
NextPoll ==
    \/ Connect(InfosPoll)
    \/ Disconnect
    \/ ConnActive(LimPoll)
    \/ ConnRecv(PbufsIds, LimPoll)
    \/ ConnSend(LimPoll)
    \/ ConnPollUpTo(LimPoll, MaxPollKa)
    \/ ConnClose

SpecPoll == Init /\ [][NextPoll]_vars

\* The CONNECT packet with every length: sessions whose CONNECT fits the TX
\* buffer, does not fit it, and is longer than 65535 bytes.
NextConn ==
    \/ Connect(InfosConn)
    \/ Disconnect
    \/ ConnError
    \/ ConnActive(LimLen)
    \/ ConnRecv(PbufsIds, LimLen)
    \/ ConnSend(LimLen)
    \/ ConnPoll(LimLen)
    \/ ConnClose

SpecConn == Init /\ [][NextConn]_vars

\* The handshakes of QoS 2: one session whose sends all succeed, with
\* publishes of QoS 2 in both directions.
NextQos2 ==
    \/ Connect(Infos)
    \/ ConnActive(LimQos2)
    \/ ConnRecv(PbufsQos2, LimQos2)
    \/ ConnSend(LimQos2)
    \/ Publish(PubInputsQos2, LimQos2)
    \/ ConnClose

SpecQos2 == Init /\ [][NextQos2]_vars

\* The raw byte stream of the broker: any bytes, so that a packet can carry
\* any number of remaining-length bytes.  RawBytes are header bytes (PINGRESP,
\* SUBSCRIBE, the reserved type 0), length bytes with and without
\* the continuation bit, and body bytes.
RawBytes == {0, 1, 128, 208}

\* the linear blocks of one and of two raw bytes
RawBlocks ==
    UNION { [1 .. n -> RawBytes] : n \in 1 .. 2 }

\* what one receive event can carry: a linear block that keeps the count of
\* the length bytes within MaxLenBytes and the position in the body within
\* MaxBodyRead
PbufsRawNow ==
    { <<b>> : b \in
        { b \in RawBlocks :
            /\ client.parser_state = MQTT_PARSER_STATE_CALC_REM_LEN =>
                   Len(b) <= MaxLenBytes - client.msg_rem_len_mult
            /\ client.parser_state = MQTT_PARSER_STATE_READ_REM =>
                   Len(b) <= MaxBodyRead - client.msg_curr_pos } }

NextRaw ==
    \/ Connect(Infos)
    \/ ConnActive(LimRx)
    \/ ConnRecv(PbufsRawNow, LimRx)
    \/ ConnSend(LimRx)
    \/ ConnClose

SpecRaw == Init /\ [][NextRaw]_vars

\* The bytes of CONNECT: a client with a TX ring of ConnTxBuffLen bytes and
\* the session descriptors of InfosFmt.
InitFmt ==
    /\ client = lwcell_mqtt_client_new(ConnTxBuffLen, RxBuffLen)
    /\ transport = [phase |-> "none", closing |-> FALSE, inflight |-> <<>>]
    /\ evts = <<>>
    /\ last = LastOf("new", "-")
    /\ ghost = GhostInit
    /\ sessions = 0

NextFmt ==
    \/ Connect(InfosFmt)
    \/ Disconnect
    \/ ConnError
    \/ ConnActive(LimLen)
    \/ ConnRecv(PbufsIds, LimLen)
    \/ ConnSend(LimLen)
    \/ ConnClose

SpecFmt == InitFmt /\ [][NextFmt]_vars

\* The fixed header written and read back: the arguments in last.res are
\* given to prv_write_fixed_header of a new client, and the bytes it wrote are
\* given to the parser of that client in one linear block.
InitHdr ==
    /\ client = lwcell_mqtt_client_new(TxBuffLen, RxBuffLen)
    /\ transport = [phase |-> "none", closing |-> FALSE, inflight |-> <<>>]
    /\ evts = <<>>
    /\ last \in { LastOf("input", in) : in \in HdrInputs }
    /\ ghost = GhostInit
    /\ sessions = 0

EncodeHeader ==
    /\ last.op = "input"
    /\ LET in == last.res
           w == prv_write_fixed_header(World, in.type, in.dup, in.qos, in.retain,
                                       in.rem_len)
       IN /\ client' = w.c
          /\ transport' = w.t
          /\ evts' = w.e
          /\ last' = [last EXCEPT !.op = "encoded"]
          /\ ghost' = GhostIo(ghost, w, client.tx_buff, transport.inflight)
          /\ UNCHANGED sessions

DecodeHeader ==
    /\ last.op = "encoded"
    /\ \E u \in UndefBytes :
         LET w == prv_mqtt_data_recv_cb(World, << client.tx_buff.data >>, u, FALSE)
         IN /\ client' = w.c
            /\ transport' = w.t
            /\ evts' = w.e
            /\ last' = [last EXCEPT !.op = "decoded"]
            /\ ghost' = GhostIo(ghost, w, client.tx_buff, transport.inflight)
            /\ UNCHANGED sessions

NextHdr ==
    \/ EncodeHeader
    \/ DecodeHeader

SpecHdr == InitHdr /\ [][NextHdr]_vars

(***************************************************************************)
(* Properties.                                                             *)
(***************************************************************************)
InUse(i) == HasFlag(client.requests[i].status, MQTT_REQUEST_FLAG_IN_USE)

\* the request with the user's argument a is a publish without QoS
IsQos0Arg(a) == a \in ArgIds /\ ghost.pub_end[a] > 0

\* the k-th event of the last handler completes a publish without QoS
IsQos0Done(k) ==
    /\ evts[k].type = "PUBLISH"
    /\ evts[k].res = "OK"
    /\ IsQos0Arg(evts[k].arg)

\* the step is the handling of LWCELL_EVT_CONN_CLOSE
IsClosedStep == transport.phase = "active" /\ transport'.phase = "none"

\* the kind of event a failed request gets
KindOf(status) ==
    IF HasFlag(status, MQTT_REQUEST_FLAG_SUBSCRIBE) THEN "SUBSCRIBE"
    ELSE IF HasFlag(status, MQTT_REQUEST_FLAG_UNSUBSCRIBE) THEN "UNSUBSCRIBE"
    ELSE "PUBLISH"

\* C1: the PUBLISH event with res ok of a publish without QoS is delivered
\* only when the send-complete events have confirmed every byte of the
\* packet: the end of the packet in the stream of bytes written in the
\* session is not beyond the bytes confirmed.
C1_PublishAfterAllBytesSent ==
    \A k \in 1 .. Len(evts) :
        IsQos0Done(k) => ghost.pub_end[evts[k].arg] <= ghost.skipped

\* C2: the PUBLISH events of the publishes without QoS are delivered in the
\* order the publishes were accepted: a later one is neither delivered before
\* an earlier one in the same handler nor while an earlier one is still in the
\* registry.
C2_PublishEventsInOrder ==
    \A k \in 1 .. Len(evts) :
        IsQos0Done(k) =>
            /\ \A j \in 1 .. (k - 1) : IsQos0Done(j) => evts[j].arg < evts[k].arg
            /\ \A i \in Slots :
                  InUse(i) /\ IsQos0Arg(client.requests[i].arg)
                      => client.requests[i].arg > evts[k].arg

C4_OneSendInFlight ==
    /\ Len(transport.inflight) <= 1
    /\ client.is_sending # 0 <=> transport.inflight # <<>>

\* an inbound packet queued its response behind the block in flight
C4_Witness ==
    /\ last.op = "recv"
    /\ client.is_sending # 0
    /\ Len(transport.inflight) = 1
    /\ Len(client.tx_buff.data) > Len(transport.inflight[1])

\* C5: no two slots in use hold the same nonzero packet identifier.
C5_UniquePacketIds ==
    \A i, j \in Slots :
        /\ i # j
        /\ InUse(i)
        /\ InUse(j)
        /\ client.requests[i].packet_id # 0
        => client.requests[i].packet_id # client.requests[j].packet_id

\* C6: every step leaves the identifier counter alone or moves it to the next
\* 16-bit value that is not 0, from 65535 to 1; a request holds the packet
\* identifier 0 exactly if it is a publish without QoS.
C6_PacketIdNeverZero ==
    [][/\ \/ client'.last_packet_id = client.last_packet_id
          \/ client'.last_packet_id =
                IF client.last_packet_id = 65535 THEN 1
                ELSE client.last_packet_id + 1
       /\ \A i \in Slots :
             HasFlag(client'.requests[i].status, MQTT_REQUEST_FLAG_IN_USE) =>
                 (client'.requests[i].packet_id = 0
                    <=> ghost'.pub_end[client'.requests[i].arg] > 0)]_vars

\* a request made when the counter was 65535, after one that still holds its
\* identifier, holds the identifier 1
C6_Witness ==
    \E i, j \in Slots :
        /\ InUse(i)
        /\ InUse(j)
        /\ client.requests[j].packet_id # 0
        /\ client.requests[i].arg > client.requests[j].arg
        /\ client.requests[i].packet_id = 1
        /\ client.last_packet_id = 1

\* C7: in CONN_DISCONNECTED no slot is in use and the TX buffer is empty.
C7_DisconnectedIsEmpty ==
    client.conn_state = LWCELL_MQTT_CONN_DISCONNECTED =>
        /\ \A i \in Slots : ~InUse(i)
        /\ client.tx_buff.data = <<>>

\* the transport closed with a request pending
C7_Witness ==
    /\ client.conn_state = LWCELL_MQTT_CONN_DISCONNECTED
    /\ last.op = "closed"
    /\ Len(evts) >= 2

C9_PendingRequestsFail ==
    [][IsClosedStep =>
         LET pending == {i \in Slots : HasFlag(client.requests[i].status,
                                               MQTT_REQUEST_FLAG_PENDING)}
         IN /\ Len(evts') = 1 + Cardinality(pending)
            /\ evts'[1].type = "DISCONNECT"
            /\ \A i \in pending :
                  /\ Cardinality({k \in 2 .. Len(evts') :
                                     evts'[k].arg = client.requests[i].arg}) = 1
                  /\ \A k \in 2 .. Len(evts') :
                        evts'[k].arg = client.requests[i].arg =>
                            /\ evts'[k].type = KindOf(client.requests[i].status)
                            /\ evts'[k].res = "ERR"
            /\ \A i \in Slots : client'.requests[i].status = 0
            /\ client'.tx_buff.data = <<>>
            /\ client'.is_sending = 0
            /\ client'.sent_total = 0
            /\ client'.written_total = 0
            /\ client'.parser_state = MQTT_PARSER_STATE_INIT]_vars

\* the transport closed with a publish and a subscription pending
C9_Witness ==
    /\ last.op = "closed"
    /\ Len(evts) = 3
    /\ {evts[2].type, evts[3].type} = {"PUBLISH", "SUBSCRIBE"}

\* C10: a failed send-complete whose close the transport accepts leaves the
\* session in CONN_DISCONNECTING, and the DISCONNECT event of the closed
\* transport that follows carries is_accepted = 1.
C10_FailedSendCloses ==
    /\ ghost.fail_close =>
          /\ client.conn_state = LWCELL_MQTT_CONN_DISCONNECTING
          /\ transport.closing
    /\ (last.op = "sent" /\ ~last.successful /\ transport.closing) =>
          client.conn_state = LWCELL_MQTT_CONN_DISCONNECTING
    /\ (last.op = "closed" /\ last.after_fail) =>
          evts[1].type = "DISCONNECT" /\ evts[1].is_accepted

\* the transport closed after a failed send-complete
C10_Witness ==
    /\ last.op = "closed"
    /\ last.after_fail
    /\ evts[1].type = "DISCONNECT"

\* C10 as stated: the DISCONNECT event after a failed send-complete carries
\* is_accepted = 0.
C10_Original ==
    (last.op = "closed" /\ last.after_fail) =>
        evts[1].type = "DISCONNECT" /\ ~evts[1].is_accepted

\* the receive events evs, one after the other, each a chain of linear blocks
RECURSIVE RecvAll(_, _, _, _)
RecvAll(w, evs, u, sendok) ==
    IF evs = <<>> THEN w
    ELSE RecvAll(prv_mqtt_data_recv_cb(w, Head(evs), u, sendok), Tail(evs), u, sendok)

\* the ways to deliver the packet p: in one block; cut in two at every
\* position, into two linear blocks of one receive event or into two receive
\* events; byte by byte, as linear blocks of one event or as events
SplitsOf(p) ==
    { << <<p>> >> }
      \cup { <<pbuf>> : pbuf \in PbufsOf(p) }
      \cup { << <<SubSeq(p, 1, k)>>, <<SubSeq(p, k + 1, Len(p))>> >> : k \in 1 .. (Len(p) - 1) }
      \cup { << [k \in 1 .. Len(p) |-> <<p[k]>>] >> }
      \cup { [k \in 1 .. Len(p) |-> << <<p[k]>> >>] }

\* what the delivery of a packet leaves behind, the scratch RX buffer aside:
\* the user events, the responses in the TX buffer and at the transport, the
\* registry, the session state and the parser
RxOutcome(w) ==
    [e |-> w.e, t |-> w.t, tx_buff |-> w.c.tx_buff, requests |-> w.c.requests,
     conn_state |-> w.c.conn_state, parser_state |-> w.c.parser_state,
     msg_hdr_byte |-> w.c.msg_hdr_byte, msg_rem_len |-> w.c.msg_rem_len,
     is_sending |-> w.c.is_sending, written_total |-> w.c.written_total]

\* the session can be handed a packet: the transport is active and the
\* parser is between two packets
RxIdle ==
    /\ transport.phase = "active"
    /\ client.parser_state = MQTT_PARSER_STATE_INIT

\* C11: for every valid inbound packet and every way of splitting its bytes
\* over linear blocks and receive events, the parser produces the same
\* outcome as for the packet in one block: the same user events, the same
\* responses, the same registry and session state.
C11_SplitsAgree ==
    RxIdle =>
      \A p \in RxPackets, u \in UndefBytes :
        \A split \in SplitsOf(p) :
          RxOutcome(RecvAll(World, split, u, TRUE))
            = RxOutcome(RecvAll(World, << <<p>> >>, u, TRUE))

\* C11 for the packets whose body fits the RX buffer
C11_SplitsAgreeFitting ==
    RxIdle =>
      \A p \in { q \in RxPackets : q[2] <= client.rx_buff_len }, u \in UndefBytes :
        \A split \in SplitsOf(p) :
          RxOutcome(RecvAll(World, split, u, TRUE))
            = RxOutcome(RecvAll(World, << <<p>> >>, u, TRUE))

\* the step is a receive event that takes the last byte of a packet whose
\* remaining length is above the capacity of the RX buffer
IsOversizeEnd ==
    /\ last'.op = "recv"
    /\ client'.parser_state = MQTT_PARSER_STATE_INIT
    /\ client'.msg_rem_len > client'.rx_buff_len

\* C12: an inbound packet whose remaining length exceeds the capacity of the
\* RX buffer is never dispatched: the receive event that takes its last byte
\* emits no user event, queues no response and changes no request, and the
\* parser never reads past the last body byte.
C12_OversizeNeverDispatched ==
    [][/\ IsOversizeEnd =>
            /\ evts' = <<>>
            /\ client'.tx_buff = client.tx_buff
            /\ client'.requests = client.requests
            /\ client'.conn_state = client.conn_state
            /\ transport' = transport
       /\ client'.parser_state = MQTT_PARSER_STATE_READ_REM =>
            client'.msg_curr_pos < client'.msg_rem_len]_vars

\* C12 where the oversize packet is copied to the RX buffer: the receive
\* event starts within its body
C12_OversizeCopiedDiscarded ==
    [][(IsOversizeEnd /\ client.parser_state = MQTT_PARSER_STATE_READ_REM) =>
            /\ evts' = <<>>
            /\ client'.tx_buff = client.tx_buff
            /\ client'.requests = client.requests
            /\ transport' = transport]_vars

\* the remaining length encoded in the bytes b from position k on, and the
\* number of bytes that encode it
RECURSIVE DecRemLen(_, _)
DecRemLen(b, k) ==
    IF k > Len(b) THEN 0
    ELSE IF b[k] >= 128 THEN (b[k] % 128) + 128 * DecRemLen(b, k + 1)
    ELSE b[k]

RECURSIVE DecRemLenCount(_, _)
DecRemLenCount(b, k) ==
    IF k <= Len(b) /\ b[k] >= 128 THEN 1 + DecRemLenCount(b, k + 1) ELSE 1

\* the bytes b are whole packets, one after the other: each is a header
\* byte, a remaining length and as many bytes as the remaining length says
RECURSIVE WholePackets(_)
WholePackets(b) ==
    \/ b = <<>>
    \/ LET total == 1 + DecRemLenCount(b, 2) + DecRemLen(b, 2)
       IN /\ total <= Len(b)
          /\ WholePackets(SubSeq(b, total + 1, Len(b)))

\* the bytes the step appends to the TX buffer
TxAppended ==
    SubSeq(client'.tx_buff.data, Len(client.tx_buff.data) + 1, Len(client'.tx_buff.data))

\* the step only writes to the TX buffer
IsTxAppend ==
    /\ Len(client'.tx_buff.data) > Len(client.tx_buff.data)
    /\ SubSeq(client'.tx_buff.data, 1, Len(client.tx_buff.data)) = client.tx_buff.data

\* C13: no packet enters the TX buffer partially: the bytes a step appends
\* to the TX buffer are whole packets, each of 1 + the number of its
\* remaining-length bytes + its remaining length bytes, and the free space
\* shrinks by exactly that many.
C13_NoPartialPacket ==
    [][IsTxAppend => WholePackets(TxAppended)]_vars

\* the remaining lengths the API can ask the pre-check for
RemLens == {0, 2, 5, 127, 128, 16383, 16384, 65532, 65533, 65535, 65536, 65538}

\* C13, the pre-check: prv_output_check_enough_memory returns 1 + the number
\* of remaining-length bytes + rem_len when that many bytes are free, and 0
\* otherwise.
C13_PreCheckExact ==
    \A rem_len \in RemLens :
      LET total == 1 + RemLenCount(rem_len) + rem_len
      IN prv_output_check_enough_memory(client, rem_len)
           = IF BuffGetFree(client.tx_buff) >= total THEN total ELSE 0

\* C13 for the remaining lengths up to 16383, whose total is below 65536
C13_PreCheckExactShort ==
    \A rem_len \in { r \in RemLens : r <= 16383 } :
      LET total == 1 + RemLenCount(rem_len) + rem_len
      IN prv_output_check_enough_memory(client, rem_len)
           = IF BuffGetFree(client.tx_buff) >= total THEN total ELSE 0

\* the step is a call of publish, subscribe or unsubscribe made in
\* MQTT_CONNECTED while every slot of the registry is in use
IsRegistryFullCall ==
    /\ \A i \in Slots : InUse(i)
    /\ client.conn_state = LWCELL_MQTT_CONNECTED
    /\ last'.op \in {"publish", "subscribe", "unsubscribe"}

\* the call left the registry, the TX buffer and the transport alone and
\* called no user callback
NothingQueued ==
    /\ client'.tx_buff = client.tx_buff
    /\ client'.requests = client.requests
    /\ client'.is_sending = client.is_sending
    /\ client'.written_total = client.written_total
    /\ client'.conn_state = client.conn_state
    /\ transport' = transport
    /\ evts' = <<>>

PubInLen(in) ==
    LET rem_len == 2 + Len(in.topic)
                     + (IF in.payload = Null THEN 0 ELSE Len(in.payload))
                     + (IF in.qos > 0 THEN 2 ELSE 0)
    IN 1 + RemLenCount(rem_len) + rem_len

\* the length of the SUBSCRIBE (sub = 1) or UNSUBSCRIBE (sub = 0) packet of
\* the topic
SubLen(topic, sub) ==
    LET rem_len == 2 + Len(topic) + 2 + sub
    IN 1 + RemLenCount(rem_len) + rem_len

\* the call returned res and left the client and the transport alone
FailedWith(w, res) ==
    /\ w.r \in res
    /\ w.c.conn_state = client.conn_state
    /\ w.c.requests = client.requests
    /\ w.c.tx_buff = client.tx_buff
    /\ w.t = transport

\* publish, subscribe and unsubscribe, called in MQTT_CONNECTED when the TX
\* buffer lacks room for the whole packet, return one of the results res and
\* leave session state, registry and TX buffer unchanged
NoRoomFails(res) ==
    client.conn_state = LWCELL_MQTT_CONNECTED =>
      /\ \A in \in PubInputsLen :
            BuffGetFree(client.tx_buff) < PubInLen(in) =>
              FailedWith(lwcell_mqtt_client_publish(World, in.topic, in.payload,
                             IF in.payload = Null THEN 0 ELSE Len(in.payload),
                             in.qos, in.retain, ghost.nextarg, TRUE), res)
      /\ BuffGetFree(client.tx_buff) < SubLen(TopicT, 1) =>
            FailedWith(lwcell_mqtt_client_subscribe(World, TopicT, 1, ghost.nextarg, TRUE), res)
      /\ BuffGetFree(client.tx_buff) < SubLen(TopicT, 0) =>
            FailedWith(lwcell_mqtt_client_unsubscribe(World, TopicT, ghost.nextarg, TRUE), res)

\* C15: when the TX buffer lacks room for the whole encoded packet, publish,
\* subscribe and unsubscribe return the memory error and leave session
\* state, registry and TX buffer contents unchanged.
C15_NoRoomFails == NoRoomFails({"ERRMEM"})

\* C15 where the generic error counts as well
C15_NoRoomFailsAnyError == NoRoomFails({"ERRMEM", "ERR"})

\* the step is a receive event that dispatched a CONNACK
IsConnackStep ==
    /\ last'.op = "recv"
    /\ client'.parser_state = MQTT_PARSER_STATE_INIT
    /\ MQTT_RCV_GET_PACKET_TYPE(client'.msg_hdr_byte) = MQTT_MSG_TYPE_CONNACK

\* the step left the session, the registry, the TX buffer and the transport
\* alone
SessionUntouched ==
    /\ client'.conn_state = client.conn_state
    /\ client'.requests = client.requests
    /\ client'.tx_buff = client.tx_buff
    /\ client'.is_sending = client.is_sending
    /\ client'.written_total = client.written_total
    /\ client'.sent_total = client.sent_total
    /\ client'.last_packet_id = client.last_packet_id
    /\ client'.poll_time = client.poll_time
    /\ transport' = transport

\* the return codes of the CONNACK packets handed to the dispatcher
ConnackCodes == {0, 1, 5}

\* the CONNACK with the return code, received in the present state: in
\* MQTT_CONNECTING one CONNECT event with the code, and MQTT_CONNECTED exactly
\* for the code 0; in every other state nothing
ConnackDispatch(code) ==
    LET w == prv_mqtt_data_recv_cb(World, << PktConnack(code) >>, 255, TRUE)
    IN IF client.conn_state = LWCELL_MQTT_CONNECTING
       THEN /\ w.e = << [EvtBase EXCEPT !.type = "CONNECT", !.status = code] >>
            /\ w.c.conn_state = IF code = 0 THEN LWCELL_MQTT_CONNECTED
                                 ELSE LWCELL_MQTT_CONNECTING
       ELSE /\ w.e = <<>>
            /\ w.c.conn_state = client.conn_state

\* C16: a CONNACK is acted on only in MQTT_CONNECTING: the code 0 moves the
\* session to MQTT_CONNECTED, any other code leaves it in MQTT_CONNECTING,
\* and in both cases exactly one CONNECT event carries the code; in any
\* other state a CONNACK changes nothing and emits no event; and no other
\* step enters MQTT_CONNECTED.
C16_ConnackOnlyInConnecting ==
    [][/\ \A code \in ConnackCodes : ConnackDispatch(code)
       /\ (IsConnackStep /\ client.conn_state = LWCELL_MQTT_CONNECTING) =>
             /\ Len(evts') = 1
             /\ evts'[1].type = "CONNECT"
             /\ client'.conn_state = IF evts'[1].status = 0 THEN LWCELL_MQTT_CONNECTED
                                      ELSE LWCELL_MQTT_CONNECTING
             /\ client'.requests = client.requests
             /\ client'.tx_buff = client.tx_buff
             /\ transport' = transport
       /\ (IsConnackStep /\ client.conn_state # LWCELL_MQTT_CONNECTING) =>
             (evts' = <<>> /\ SessionUntouched)
       /\ (client'.conn_state = LWCELL_MQTT_CONNECTED
              /\ client.conn_state # LWCELL_MQTT_CONNECTED) =>
             /\ IsConnackStep
             /\ client.conn_state = LWCELL_MQTT_CONNECTING
             /\ evts' = << [EvtBase EXCEPT !.type = "CONNECT", !.status = 0] >>]_vars

\* a CONNACK with the return code 5 was received in MQTT_CONNECTING
C16_Witness ==
    /\ last.op = "recv"
    /\ evts = << [EvtBase EXCEPT !.type = "CONNECT", !.status = 5] >>
    /\ client.conn_state = LWCELL_MQTT_CONNECTING

\* the final acknowledgements handed to the dispatcher: PUBACK, PUBCOMP,
\* SUBACK and UNSUBACK with the packet ids 0 .. MaxPktId + 1
AckPackets ==
    UNION { {PktPuback(p), PktPubcomp(p), PktSuback(p, 0), PktUnsuback(p)} :
              p \in 0 .. (MaxPktId + 1) }

\* the event a final acknowledgement completes a request with
AckEvent(pkt) ==
    LET type == MQTT_RCV_GET_PACKET_TYPE(pkt[1])
    IN IF type = MQTT_MSG_TYPE_SUBACK THEN "SUBSCRIBE"
       ELSE IF type = MQTT_MSG_TYPE_UNSUBACK THEN "UNSUBSCRIBE"
       ELSE "PUBLISH"

\* the slot i holds a pending request with the packet id
IsPendingWith(i, pkt_id) ==
    /\ HasFlag(client.requests[i].status, MQTT_REQUEST_FLAG_PENDING)
    /\ client.requests[i].packet_id = pkt_id

\* the acknowledgement pkt, received in the present state: with a pending
\* request of its packet id one event with the argument of that request,
\* and that slot freed; without one nothing
AckDispatch(pkt) ==
    LET w == prv_mqtt_data_recv_cb(World, << pkt >>, 255, TRUE)
        pkt_id == pkt[3] * 256 + pkt[4]
    IN /\ w.c.conn_state = client.conn_state
       /\ w.c.tx_buff = client.tx_buff
       /\ w.t = transport
       /\ IF \E i \in Slots : IsPendingWith(i, pkt_id)
          THEN \E i \in Slots :
                 /\ IsPendingWith(i, pkt_id)
                 /\ Len(w.e) = 1
                 /\ w.e[1].type = AckEvent(pkt)
                 /\ w.e[1].arg = client.requests[i].arg
                 /\ w.c.requests = [client.requests EXCEPT ![i].status = 0]
          ELSE /\ w.e = <<>>
               /\ w.c.requests = client.requests

\* C17: an inbound PUBACK, PUBCOMP, SUBACK or UNSUBACK is correlated by its
\* packet id: with a pending request of that id exactly one completion event
\* with the argument of that request is emitted and exactly that slot is
\* freed; without one no event is emitted and neither a slot nor the
\* session state changes.
C17_AckByPacketId ==
    RxIdle => \A pkt \in AckPackets : AckDispatch(pkt)

\* a SUBACK completed the pending subscribe request while another request
\* stays pending
C17_Witness ==
    /\ last.op = "recv"
    /\ Len(evts) = 1
    /\ evts[1].type = "SUBSCRIBE"
    /\ evts[1].res = "OK"
    /\ \E i, j \in Slots :
          /\ ~InUse(i)
          /\ client.requests[i].arg = evts[1].arg
          /\ client.requests[i].packet_id = MaxPktId
          /\ HasFlag(client.requests[j].status, MQTT_REQUEST_FLAG_PENDING)

\* the inbound PUBLISH packets handed to the dispatcher: every flag, with
\* and without payload, and the long one
RxPublishes ==
    { [dup |-> d, qos |-> q, retain |-> r, topic |-> TopicT, id |-> 5, payload |-> pl] :
        d \in {0, 1}, q \in {0, 1, 2}, r \in {0, 1}, pl \in {<<>>, <<120>>} }

RxPublishLong ==
    [dup |-> 0, qos |-> 0, retain |-> 0, topic |-> TopicT, id |-> 0,
     payload |-> BigPayload \o <<120, 120>>]

\* the PUBLISH in, received in one linear block in the present state: one
\* PUBLISH_RECV event with its topic, payload and flags; for QoS 1 a PUBACK
\* and for QoS 2 a PUBREC with its packet id in the TX buffer if 4 bytes
\* were free, and nothing else
PublishDispatch(in) ==
    LET pkt == PktPublish(in.dup, in.qos, in.retain, in.topic, in.id, in.payload)
        w == prv_mqtt_data_recv_cb(World, << pkt >>, 255, TRUE)
        resp == << (IF in.qos = 1 THEN 64 ELSE 80), 2 >> \o U16Bytes(in.id)
    IN /\ w.e = << [EvtBase EXCEPT !.type = "PUBLISH_RECV",
                                   !.topic = in.topic, !.payload = in.payload,
                                   !.dup = in.dup, !.qos = in.qos,
                                   !.retain = in.retain] >>
       /\ w.c.tx_buff.data =
            IF in.qos > 0 /\ BuffGetFree(client.tx_buff) >= 4
            THEN client.tx_buff.data \o resp
            ELSE client.tx_buff.data
       /\ w.c.requests = client.requests
       /\ w.c.conn_state = client.conn_state

\* C18: every dispatched inbound PUBLISH gives exactly one PUBLISH_RECV
\* event with the topic, payload, dup, QoS and retain of the packet; for
\* QoS 1 a PUBACK and for QoS 2 a PUBREC with the packet id is queued exactly
\* when the TX buffer has 4 free bytes, and for QoS 0 nothing is queued.
C18_PublishRecv ==
    RxIdle => \A in \in RxPublishes \cup {RxPublishLong} : PublishDispatch(in)

\* C18 for the packets with a payload of at most one byte
C18_PublishRecvShort ==
    RxIdle => \A in \in RxPublishes : PublishDispatch(in)

\* the PINGREQ packet
PktPingreq == <<192, 0>>

\* the poll event that comes now is due to send a PINGREQ: keep-alive is on,
\* the session is not closing and the time counted reaches the keep-alive
PingDue ==
    /\ client.info.keep_alive # 0
    /\ client.conn_state # LWCELL_MQTT_CONN_DISCONNECTING
    /\ (client.poll_time + 1) * LWCELL_CFG_CONN_POLL_INTERVAL
         >= client.info.keep_alive * 1000

\* C19: every poll event increments poll_time; when keep-alive is on, the
\* state is not CONN_DISCONNECTING and poll_time * the poll interval has
\* reached the keep-alive time, a PINGREQ (C0 00) is queued if the TX buffer
\* has room and poll_time is reset to 0; otherwise no PINGREQ is queued and
\* poll_time keeps its incremented value, also when the PINGREQ did not fit.
\* A send-complete event resets poll_time.
C19_KeepAlive ==
    [][/\ last'.op = "poll" =>
            /\ IF PingDue /\ BuffGetFree(client.tx_buff) >= 2
               THEN /\ client'.tx_buff.data = client.tx_buff.data \o PktPingreq
                    /\ client'.poll_time = 0
               ELSE /\ client'.tx_buff = client.tx_buff
                    /\ client'.poll_time = client.poll_time + 1
                    /\ transport' = transport
            /\ evts' = <<>>
            /\ client'.conn_state = client.conn_state
            /\ client'.requests = client.requests
       /\ last'.op = "sent" => client'.poll_time = 0]_vars

\* with a keep-alive of 10 s the poll event queued a PINGREQ, which by
\* C19_KeepAlive is the 20th poll event or a later one
C19_Witness ==
    /\ last.op = "poll"
    /\ client.info.keep_alive = 10
    /\ client.poll_time = 0
    /\ Len(client.tx_buff.data) >= 2
    /\ SubSeq(client.tx_buff.data, Len(client.tx_buff.data) - 1,
              Len(client.tx_buff.data)) = PktPingreq

\* the length of the CONNECT packet of the session descriptor: 1 + the
\* number of remaining-length bytes + the remaining length
ConnectLen(info) ==
    LET str(x) == IF x = Null THEN 0 ELSE Len(x) + 2
        rem_len == 10 + Len(info.id) + 2
                     + (IF info.will_topic # Null /\ info.will_message # Null
                        THEN str(info.will_topic) + str(info.will_message) ELSE 0)
                     + str(info.user) + str(info.pass)
    IN 1 + RemLenCount(rem_len) + rem_len

\* the step is the handling of LWCELL_EVT_CONN_ACTIVE
IsActiveStep == last'.op = "active"

\* C20: when the transport-connected event fires and the TX buffer cannot
\* hold the whole CONNECT packet, nothing is written, no user event is
\* emitted and the session does not enter MQTT_CONNECTING; otherwise the
\* whole CONNECT packet is queued, the parser and poll_time are reset and
\* the state becomes MQTT_CONNECTING.
C20_ConnectFitsOrNothing ==
    [][IsActiveStep =>
         IF BuffGetFree(client.tx_buff) < ConnectLen(client.info)
         THEN /\ client'.tx_buff = client.tx_buff
              /\ evts' = <<>>
              /\ client'.conn_state = client.conn_state
              /\ client'.conn_state # LWCELL_MQTT_CONNECTING
              /\ transport'.inflight = transport.inflight
         ELSE /\ IsTxAppend
              /\ Len(TxAppended) = ConnectLen(client.info)
              /\ WholePackets(TxAppended)
              /\ MQTT_RCV_GET_PACKET_TYPE(TxAppended[1]) = MQTT_MSG_TYPE_CONNECT
              /\ evts' = <<>>
              /\ client'.parser_state = MQTT_PARSER_STATE_INIT
              /\ client'.poll_time = 0
              /\ client'.conn_state = LWCELL_MQTT_CONNECTING]_vars

\* C20 for the session descriptors whose CONNECT packet is below 65536 bytes
C20_ConnectFitsOrNothingShort ==
    [][(IsActiveStep /\ ConnectLen(client.info) < 65536) =>
         IF BuffGetFree(client.tx_buff) < ConnectLen(client.info)
         THEN /\ client'.tx_buff = client.tx_buff
              /\ evts' = <<>>
              /\ client'.conn_state = client.conn_state
              /\ client'.conn_state # LWCELL_MQTT_CONNECTING
              /\ transport'.inflight = transport.inflight
         ELSE /\ IsTxAppend
              /\ Len(TxAppended) = ConnectLen(client.info)
              /\ WholePackets(TxAppended)
              /\ MQTT_RCV_GET_PACKET_TYPE(TxAppended[1]) = MQTT_MSG_TYPE_CONNECT
              /\ evts' = <<>>
              /\ client'.parser_state = MQTT_PARSER_STATE_INIT
              /\ client'.poll_time = 0
              /\ client'.conn_state = LWCELL_MQTT_CONNECTING]_vars

\* the bytes a are the first bytes of b
IsPrefix(a, b) == Len(a) <= Len(b) /\ a = SubSeq(b, 1, Len(a))

\* C21: within a session the concatenation of the blocks handed to the
\* transport is a prefix of the concatenation of the packets in the order
\* they were written to the TX buffer: no byte is reordered, duplicated or
\* skipped.
C21_WireIsPrefix == IsPrefix(ghost.wire, ghost.written)

\* the TX ring wrapped around: a block was handed over from a read position
\* above 0 after more bytes than the ring holds were written
C21_Wrapped ==
    /\ Len(ghost.written) > TxBuffLen
    /\ Len(ghost.wire) > TxBuffLen
    /\ client.is_sending # 0

\* the bytes b are a remaining length: at least one and at most four, each
\* but the last with the continuation bit 0x80
IsVli(b) ==
    /\ Len(b) \in 1 .. 4
    /\ b[Len(b)] < 128
    /\ \A k \in 1 .. (Len(b) - 1) : b[k] >= 128

\* C22: for every remaining length n in 0 .. 268435455 the encoder writes at
\* least one and at most four bytes, 7 bits per byte, least-significant
\* group first, with the continuation bit 0x80, and the state CALC_REM_LEN of
\* the parser decodes them back to n.
C22_VliRoundTrip ==
    /\ last.op = "encoded" =>
          /\ IsVli(Tail(client.tx_buff.data))
          /\ DecRemLen(client.tx_buff.data, 2) = last.res.rem_len
    /\ last.op = "decoded" => client.msg_rem_len = last.res.rem_len

\* C22 for the remaining lengths that a uint16_t holds
C22_VliRoundTripShort ==
    last.res.rem_len < 65536 => C22_VliRoundTrip

\* what the receive side extracts from the header it was given
HdrDecoded ==
    [type |-> MQTT_RCV_GET_PACKET_TYPE(client.msg_hdr_byte),
     dup |-> MQTT_RCV_GET_PACKET_DUP(client.msg_hdr_byte),
     qos |-> MQTT_RCV_GET_PACKET_QOS(client.msg_hdr_byte),
     retain |-> MQTT_RCV_GET_PACKET_RETAIN(client.msg_hdr_byte),
     rem_len |-> client.msg_rem_len]

\* C23: for every tuple (type, dup, qos, retain, rem_len) given to the writer
\* of the fixed header, with rem_len a uint16_t, the receive-side extractors
\* yield the type and the remaining length of the tuple; they yield its dup,
\* QoS and retain for PUBLISH, the fixed flags dup 0, QoS 1, retain 0 for
\* PUBREL, SUBSCRIBE and UNSUBSCRIBE, and dup 0, QoS 0, retain 0 for every
\* other type.
C23_HeaderRoundTrip ==
    (last.op = "decoded" /\ last.res.rem_len < 65536) =>
        HdrDecoded =
            IF last.res.type = MQTT_MSG_TYPE_PUBLISH THEN last.res
            ELSE IF last.res.type \in {MQTT_MSG_TYPE_PUBREL, MQTT_MSG_TYPE_SUBSCRIBE,
                                       MQTT_MSG_TYPE_UNSUBSCRIBE}
            THEN [last.res EXCEPT !.dup = 0, !.qos = 1, !.retain = 0]
            ELSE [last.res EXCEPT !.dup = 0, !.qos = 0, !.retain = 0]

\* the header of a PUBLISH with dup, QoS 2, retain and a remaining length of
\* three bytes was read back
C23_Witness ==
    /\ last.op = "decoded"
    /\ last.res = [type |-> MQTT_MSG_TYPE_PUBLISH, dup |-> 1, qos |-> 2, retain |-> 1,
                   rem_len |-> 16384]
    /\ HdrDecoded = last.res
    /\ client.parser_state = MQTT_PARSER_STATE_READ_REM

\* C23 as stated: the extractors yield the tuple given to the writer, for
\* every packet type.
C23_Original ==
    (last.op = "decoded" /\ last.res.rem_len < 65536) => HdrDecoded = last.res

\* a string with its 16-bit big-endian length in front
LenPrefixed(str) == U16Bytes(Len(str)) \o str

\* the bytes that follow the remaining length of the CONNECT packet of the
\* session descriptor: "MQTT", level 4, the connect flags, the keep-alive,
\* then client id, will topic, will message, user name and password
ConnectBody(info) ==
    LET has_will == info.will_topic # Null /\ info.will_message # Null
        flags == 2 + (IF has_will
                      THEN 4 + 8 * (IF info.will_qos < 2 THEN info.will_qos ELSE 2)
                      ELSE 0)
                   + (IF info.pass # Null THEN 64 ELSE 0)
                   + (IF info.user # Null THEN 128 ELSE 0)
    IN <<0, 4, 77, 81, 84, 84, 4, flags>> \o U16Bytes(info.keep_alive)
         \o LenPrefixed(info.id)
         \o (IF has_will
             THEN LenPrefixed(info.will_topic) \o LenPrefixed(info.will_message)
             ELSE <<>>)
         \o (IF info.user # Null THEN LenPrefixed(info.user) ELSE <<>>)
         \o (IF info.pass # Null THEN LenPrefixed(info.pass) ELSE <<>>)

\* the bytes b are the CONNECT packet of the session descriptor
IsConnectOf(b, info) ==
    LET k == DecRemLenCount(b, 2)
    IN /\ b[1] = 16
       /\ DecRemLen(b, 2) = Len(b) - 1 - k
       /\ SubSeq(b, 2 + k, Len(b)) = ConnectBody(info)
       /\ info = InfoAbc60 =>
             b = <<16, 15, 0, 4, 77, 81, 84, 84, 4, 2, 0, 60, 0, 3, 97, 98, 99>>

\* C24: the CONNECT packet queued on the transport-connected event is the
\* header 0x10, the remaining length, "MQTT", level 4, the flags (bit 1
\* always, bit 2 iff will topic and will message are both set, bits 4..3 the
\* will QoS capped at 2 when the will is set, bit 6 iff password, bit 7 iff
\* user name, bit 5 never), the keep-alive in 16 bits big-endian, then client
\* id, will topic, will message, user name and password as length-prefixed
\* strings when present; the remaining length is the number of bytes that
\* follow it; for the id "abc" and keep-alive 60 the bytes are
\* 10 0F 00 04 4D 51 54 54 04 02 00 3C 00 03 61 62 63.
C24_ConnectBytes ==
    [][(IsActiveStep /\ client'.tx_buff # client.tx_buff) =>
          /\ IsTxAppend
          /\ IsConnectOf(TxAppended, client.info)]_vars

\* C24 for the session descriptors whose CONNECT packet is below 65536 bytes
C24_ConnectBytesShort ==
    [][(IsActiveStep /\ client'.tx_buff # client.tx_buff
          /\ ConnectLen(client.info) < 65536) =>
          /\ IsTxAppend
          /\ IsConnectOf(TxAppended, client.info)]_vars

\* the step handed a block to the transport
IsHandOver == Len(ghost'.wire) > Len(ghost.wire)

\* C25: a flush attempted while no send is in flight and the TX ring is
\* empty resets the read and write positions of the ring to 0, so the ring
\* is never left empty at another position; hence the bytes written to the
\* drained ring lie in one contiguous block from position 0, and the block
\* handed to the transport then is all of them.
C25_EmptyRingIsReset ==
    [][/\ client'.tx_buff.data = <<>> => client'.tx_buff.r = 0
       /\ (client.tx_buff.data = <<>> /\ IsTxAppend) =>
             /\ client'.tx_buff.r = 0
             /\ BuffGetLinearBlockReadLength(client'.tx_buff) = Len(client'.tx_buff.data)
             /\ IsHandOver =>
                   transport'.inflight = << client'.tx_buff.data >>]_vars

\* a SUBSCRIBE packet was written after a send-complete had drained the ring
\* at a position from which the packet would have wrapped around, and was
\* handed over in one block
C25_Witness ==
    /\ last.op = "subscribe"
    /\ last.res = "OK"
    /\ ghost.skipped > 0
    /\ ghost.skipped + Len(client.tx_buff.data) = Len(ghost.written)
    /\ (ghost.skipped % TxBuffLen) + Len(client.tx_buff.data) > TxBuffLen
    /\ client.tx_buff.r = 0
    /\ transport.inflight = << client.tx_buff.data >>

\* the packet ids of the packets of the QoS-2 handshakes handed to the
\* dispatcher
Qos2Ids == {1, 5, 258}

\* the packet pkt, received in one linear block in the present state, left
\* the events evs, wrote the response resp to the TX buffer if cond holds and
\* nothing otherwise, and left registry and session state alone
Responds(pkt, evs, resp, cond) ==
    \A sendok \in SendResults :
      LET w == prv_mqtt_data_recv_cb(World, << pkt >>, 255, sendok)
      IN /\ w.e = evs
         /\ w.c.tx_buff.data = IF cond THEN client.tx_buff.data \o resp
                               ELSE client.tx_buff.data
         /\ w.c.requests = client.requests
         /\ w.c.conn_state = client.conn_state
         /\ w.c.last_packet_id = client.last_packet_id

\* the handshake packets with the packet id p, received in the present
\* state, are answered if cond holds: PUBLISH with QoS 2 by PUBREC and a
\* PUBLISH_RECV event, PUBREL by PUBCOMP, PUBREC by PUBREL
Qos2Responses(p, cond) ==
    /\ Responds(PktPublish(1, 2, 1, TopicT, p, <<120, 121>>),
                << [EvtBase EXCEPT !.type = "PUBLISH_RECV", !.topic = TopicT,
                                   !.payload = <<120, 121>>, !.dup = 1, !.qos = 2,
                                   !.retain = 1] >>,
                <<80, 2>> \o U16Bytes(p), cond)
    /\ Responds(PktPubrel(p), <<>>, <<112, 2>> \o U16Bytes(p), cond)
    /\ Responds(PktPubrec(p), <<>>, <<98, 2>> \o U16Bytes(p), cond)

C27_ConnErrorEvent ==
    [][last'.op = "error" =>
         /\ client'.conn_state = LWCELL_MQTT_CONN_DISCONNECTED
         /\ evts' = << [EvtBase EXCEPT !.type = "CONNECT",
                                       !.status = LWCELL_MQTT_CONN_STATUS_TCP_FAILED] >>
         /\ client'.requests = client.requests
         /\ client'.tx_buff = client.tx_buff]_vars

\* the connection the client asked for failed to start
C27_Witness ==
    /\ last.op = "error"
    /\ client.conn_state = LWCELL_MQTT_CONN_DISCONNECTED
    /\ Len(evts) = 1
    /\ evts[1].type = "CONNECT"
    /\ sessions = 1

\* the slot i holds a pending publish request without QoS
IsPendingQos0(i) ==
    /\ HasFlag(client.requests[i].status, MQTT_REQUEST_FLAG_PENDING)
    /\ client.requests[i].packet_id = 0

\* C28: after a successful send-complete event no pending publish request
\* without QoS remains whose expected_sent_len is at most sent_total,
\* whatever slots the pending requests occupy: each was retired in that
\* handler.
C28_AllSentRetired ==
    (last.op = "sent" /\ last.successful) =>
        \A i \in Slots :
            IsPendingQos0(i) => client.requests[i].expected_sent_len > client.sent_total

\* C28 where the pending publish requests without QoS lie in the order of
\* their slots: the lowest pending slot holds the smallest expected_sent_len
C28_AllSentRetiredInOrder ==
    [][(/\ last'.op = "sent"
        /\ last'.successful
        /\ \A i, j \in Slots :
              (IsPendingQos0(i) /\ IsPendingQos0(j) /\ i < j) =>
                  client.requests[i].expected_sent_len
                      <= client.requests[j].expected_sent_len) =>
          \A i \in Slots :
              (/\ HasFlag(client'.requests[i].status, MQTT_REQUEST_FLAG_PENDING)
               /\ client'.requests[i].packet_id = 0) =>
                  client'.requests[i].expected_sent_len > client'.sent_total]_vars

\* C29: the parser takes at most four remaining-length bytes of an inbound
\* packet: it is no longer in CALC_REM_LEN once the fourth length byte is
\* consumed, msg_rem_len_mult never exceeds 4 and the accumulated remaining
\* length never exceeds 268435455.
C29_AtMostFourLengthBytes ==
    /\ client.msg_rem_len_mult <= 4
    /\ client.parser_state = MQTT_PARSER_STATE_CALC_REM_LEN =>
           client.msg_rem_len_mult <= 3
    /\ client.msg_rem_len <= 268435455

\* C29 for the packets of the broker that follow the standard: the length
\* of every packet of RxPackets takes one byte
C29_OneLengthByte ==
    /\ client.msg_rem_len_mult <= 1
    /\ client.parser_state = MQTT_PARSER_STATE_CALC_REM_LEN =>
           client.msg_rem_len_mult = 0
    /\ client.msg_rem_len <= 127

\* the packet p was dispatched and this shows: PINGRESP and an inbound
\* PUBLISH that fits the RX buffer raise a user event in every session state
ShowsDispatch(p) ==
    /\ p \in {PktPingresp, PktPublishQos0}
    /\ Len(p) - 2 <= client.rx_buff_len

\* nothing was dispatched in the world w
NoDispatch(w) ==
    /\ w.e = <<>>
    /\ w.c.requests = client.requests
    /\ w.c.tx_buff = client.tx_buff
    /\ w.c.conn_state = client.conn_state
    /\ w.t = transport

\* C30: in every reachable state msg_curr_pos <= msg_rem_len, and while the
\* body is read the position is below the remaining length.  For every
\* packet and every segmentation of its bytes, nothing is dispatched and
\* the parser is not in INIT before the last byte of the packet is handed
\* over; with the last byte (the length byte when the remaining length is
\* 0) the packet is dispatched or discarded and the parser is in INIT, so
\* that the byte after the packet is taken as the header of the next one.
C30_DispatchAtLastByte ==
    /\ client.msg_curr_pos <= client.msg_rem_len
    /\ client.parser_state = MQTT_PARSER_STATE_READ_REM =>
           client.msg_curr_pos < client.msg_rem_len
    /\ RxIdle =>
         \A p \in RxPackets, u \in UndefBytes :
           /\ \A split \in SplitsOf(p) :
                 \A k \in 1 .. Len(split) :
                   LET w == RecvAll(World, SubSeq(split, 1, k), u, TRUE)
                   IN IF k < Len(split)
                      THEN /\ w.c.parser_state # MQTT_PARSER_STATE_INIT
                           /\ NoDispatch(w)
                      ELSE /\ w.c.parser_state = MQTT_PARSER_STATE_INIT
                           /\ ShowsDispatch(p) => w.e # <<>>
           /\ \A q \in RxPackets :
                 \A pbuf \in {<<p \o <<q[1]>>>>, <<p, <<q[1]>>>>} :
                   LET w == RecvAll(World, <<pbuf>>, u, TRUE)
                   IN /\ w.c.parser_state = MQTT_PARSER_STATE_CALC_REM_LEN
                      /\ w.c.msg_hdr_byte = q[1]
                      /\ w.c.msg_curr_pos = 0

\* a receive event took the last body byte of a packet that was copied to
\* the RX buffer over several receive events, and the packet was dispatched
C30_Witness ==
    /\ last.op = "recv"
    /\ client.parser_state = MQTT_PARSER_STATE_INIT
    /\ client.msg_rem_len > 0
    /\ client.msg_curr_pos = client.msg_rem_len
    /\ evts # <<>>

\* the position in the body stays within the remaining length for any
\* inbound bytes, whatever the number of the length bytes
C30_PositionWithinLength ==
    /\ client.msg_curr_pos <= client.msg_rem_len
    /\ client.parser_state = MQTT_PARSER_STATE_READ_REM =>
           client.msg_curr_pos < client.msg_rem_len

\* the slot i of the client record c has the in-use bit
InUseIn(c, i) == HasFlag(c.requests[i].status, MQTT_REQUEST_FLAG_IN_USE)

\* the packet identifiers and the user argument handed to the creation
CreateIds == {0, 1, 65535}

CreateArg == 7

\* creation in the client record c: it fails exactly when every slot is in
\* use and then changes nothing; otherwise it takes the lowest slot whose
\* in-use bit is clear, sets its identifier, argument and status and leaves
\* the other slots alone
CreateTakesLowestFree(c) ==
    \A pkt \in CreateIds :
      LET w == prv_request_create([World EXCEPT !.c = c], pkt, CreateArg)
      IN /\ (w.r = NoRequest) <=> (\A i \in Slots : InUseIn(c, i))
         /\ w.r = NoRequest => w.c = c
         /\ w.r # NoRequest =>
               /\ w.r \in Slots
               /\ ~InUseIn(c, w.r)
               /\ \A j \in Slots : j < w.r => InUseIn(c, j)
               /\ w.c = [c EXCEPT !.requests[w.r].packet_id = pkt,
                                  !.requests[w.r].arg = CreateArg,
                                  !.requests[w.r].status = MQTT_REQUEST_FLAG_IN_USE]

\* C31: the registry holds at most MAX_REQUESTS in-use slots; creation
\* takes the lowest slot whose in-use bit is clear and fails if and only if
\* every slot is in use; a slot that a step retires (an acknowledgement, the
\* send completion of a publish without QoS, the transport-closed event) is
\* free for the creation that follows the step.
C31_RegistrySlots ==
    [][/\ Cardinality({ i \in DOMAIN client'.requests : InUseIn(client', i) }) <= MaxRequests
       /\ CreateTakesLowestFree(client)
       /\ CreateTakesLowestFree(client')
       /\ \A i \in Slots :
             (InUseIn(client, i) /\ ~InUseIn(client', i)) =>
                \A pkt \in CreateIds :
                  LET w == prv_request_create([World EXCEPT !.c = client'], pkt, CreateArg)
                  IN w.r # NoRequest /\ w.r <= i]_vars

\* the send completion of a publish without QoS has retired the request of
\* slot 0 while slot 1 is in use
C31_Witness ==
    /\ last.op = "sent"
    /\ \E k \in 1 .. Len(evts) : evts[k].type = "PUBLISH" /\ evts[k].res = "OK"
    /\ ~InUse(0)
    /\ InUse(1)

\* an acknowledgement has retired a request
C31_WitnessAck ==
    /\ last.op = "recv"
    /\ \E k \in 1 .. Len(evts) : evts[k].type \in {"PUBLISH", "SUBSCRIBE", "UNSUBSCRIBE"}
    /\ ~InUse(0)

\* the transport-closed event has retired two requests
C31_WitnessClosed ==
    /\ last.op = "closed"
    /\ Len(evts) >= 3

\* the return codes of a SUBACK: the granted QoS 0, 1, 2, the first value
\* that is none, and the failure code 0x80
RetCodes == {0, 1, 2, 3, 128}

\* SUBACK with every return code and UNSUBACK, whose body is the packet id
\* alone, for the packet ids the sessions draw
RespPackets ==
    UNION { { PktSuback(p, rc) : rc \in RetCodes } \cup { PktUnsuback(p) } :
              p \in 1 .. MaxPktId }

\* the delivery of the packet pkt completes the pending request of its
\* packet id with one event of the result ok, and retires the request
RespCompletes(pkt, split, u, ok) ==
    LET w == RecvAll(World, split, u, TRUE)
        pkt_id == pkt[3] * 256 + pkt[4]
        i == CHOOSE i \in Slots :
                /\ IsPendingWith(i, pkt_id)
                /\ \A j \in Slots : j < i => ~IsPendingWith(j, pkt_id)
    IN /\ Len(w.e) = 1
       /\ w.e[1].type = AckEvent(pkt)
       /\ w.e[1].arg = client.requests[i].arg
       /\ w.e[1].res = IF ok THEN "OK" ELSE "ERR"
       /\ w.c.requests = [client.requests EXCEPT ![i].status = 0]

\* C32: a SUBACK or UNSUBACK that matches a pending request completes it
\* with a SUBSCRIBE or UNSUBSCRIBE event whose result is success if and
\* only if the first response byte of the packet, the byte after the packet
\* id, is below 3, and retires the request in both cases.  The result is
\* that of the packet: where the packet has no response byte, it is the
\* same for every delivery of the packet.
C32_ResultFromResponseByte ==
    RxIdle =>
      \A pkt \in RespPackets :
        (\E i \in Slots : IsPendingWith(i, pkt[3] * 256 + pkt[4])) =>
          \E r \in BOOLEAN :
            \A u \in UndefBytes, split \in SplitsOf(pkt) :
              RespCompletes(pkt, split, u, IF Len(pkt) >= 5 THEN pkt[5] < 3 ELSE r)

\* C32 for SUBACK, which carries a response byte
C32_SubackResult ==
    RxIdle =>
      \A pkt \in { q \in RespPackets : Len(q) >= 5 } :
        (\E i \in Slots : IsPendingWith(i, pkt[3] * 256 + pkt[4])) =>
          \A u \in UndefBytes, split \in SplitsOf(pkt) :
            RespCompletes(pkt, split, u, pkt[5] < 3)

\* C32 for UNSUBACK with the result taken from RX position 2, which lies
\* behind the body: the byte u where the memory behind the block is read
\* or the cell of the RX buffer was never written, else the byte an
\* earlier packet left in the RX buffer
C32_UnsubackResult ==
    RxIdle =>
      \A pkt \in { q \in RespPackets : Len(q) < 5 } :
        (\E i \in Slots : IsPendingWith(i, pkt[3] * 256 + pkt[4])) =>
          \A u \in UndefBytes :
            /\ RespCompletes(pkt, << <<pkt>> >>, u, u < 3)
            /\ RespCompletes(pkt, [k \in 1 .. Len(pkt) |-> << <<pkt[k]>> >>], u,
                             RxAt(client.rx_buff, 2, u) < 3)

RequestKind(i) == KindOf(client.requests[i].status)

\* the acknowledgement pkt, received in the present state with a pending
\* request of its packet id, completes that request with one event, of the
\* kind of the request (byreq) or of the kind of the acknowledgement
AckCompletesAs(pkt, byreq) ==
    LET w == prv_mqtt_data_recv_cb(World, << pkt >>, 0, TRUE)
        pkt_id == pkt[3] * 256 + pkt[4]
    IN \A i \in Slots :
         (IsPendingWith(i, pkt_id) /\ \A j \in Slots : j < i => ~IsPendingWith(j, pkt_id)) =>
            /\ Len(w.e) = 1
            /\ w.e[1].arg = client.requests[i].arg
            /\ w.e[1].type = IF byreq THEN RequestKind(i) ELSE AckEvent(pkt)
            /\ w.c.requests = [client.requests EXCEPT ![i].status = 0]

\* C34: the completion event an acknowledgement emits has the kind of the
\* request it retires: SUBSCRIBE for a subscribe request, UNSUBSCRIBE for
\* an unsubscribe request, PUBLISH for a publish request, whatever the type
\* of the acknowledgement (SUBACK, UNSUBACK, PUBACK, PUBCOMP) that carries
\* the packet id.
C34_EventKindOfRequest ==
    RxIdle => \A pkt \in AckPackets : AckCompletesAs(pkt, TRUE)

\* the kind of the event follows the type of the acknowledgement
C34_EventKindOfAck ==
    RxIdle => \A pkt \in AckPackets : AckCompletesAs(pkt, FALSE)

\* C34 where the acknowledgement is the one of the kind of the request
C34_EventKindMatching ==
    RxIdle =>
      \A pkt \in AckPackets :
        (\A i \in Slots :
            IsPendingWith(i, pkt[3] * 256 + pkt[4]) => RequestKind(i) = AckEvent(pkt))
          => AckCompletesAs(pkt, TRUE)

\* C35: every publish, subscribe or unsubscribe call that returned success
\* gets exactly one completion event over the life of its request: while
\* the session lasts never more than one, none for a call that was not made
\* yet, and with the transport-closed event every successful call of the
\* session has got exactly one.
C35_ExactlyOneCompletion ==
    [][IF last'.op = "closed"
       THEN \A a \in ArgIds :
              ghost.done[a] + Completions(evts', a)
                = IF a < ghost.nextarg THEN 1 ELSE 0
       ELSE \A a \in ArgIds :
              /\ ghost'.done[a] <= 1
              /\ a >= ghost'.nextarg => ghost'.done[a] = 0]_vars

\* the transport-closed event failed a pending request of a session in
\* which another request was completed before
C35_Witness ==
    /\ last.op = "closed"
    /\ Len(evts) = 2
    /\ evts[2].type \in CompletionTypes
    /\ evts[2].res = "ERR"
    /\ evts[2].arg = 2

\* the step is a publish, subscribe or unsubscribe call that returned an
\* error
IsFailedCall ==
    /\ last'.op \in {"publish", "subscribe", "unsubscribe"}
    /\ last'.res # "OK"

\* C36: a publish, subscribe or unsubscribe call that returns an error
\* leaves the whole client unchanged: session state, TX buffer, registry,
\* the counters of bytes written and sent and the packet-identifier
\* counter; it hands nothing to the transport and emits no event.
C36_FailedCallChangesNothing ==
    [][IsFailedCall =>
         /\ client' = client
         /\ transport' = transport
         /\ evts' = <<>>]_vars

\* C36 with the packet-identifier counter left aside: a failed call changes
\* at most last_packet_id, and that only when the registry is full, the
\* session is MQTT_CONNECTED and the TX buffer has room for the packet
C36_FailedCallChangesCounterOnly ==
    [][IsFailedCall =>
         /\ client' = [client EXCEPT !.last_packet_id = client'.last_packet_id]
         /\ transport' = transport
         /\ evts' = <<>>
         /\ client'.last_packet_id # client.last_packet_id =>
               /\ \A i \in Slots : InUse(i)
               /\ client.conn_state = LWCELL_MQTT_CONNECTED
               /\ client'.last_packet_id
                    = IF client.last_packet_id = 65535 THEN 1
                      ELSE client.last_packet_id + 1]_vars

\* the acknowledgement pkt, received in the present state, leaves every
\* pending publish request without QoS in its slot and emits no event with
\* the argument of one
AckKeepsQos0(pkt) ==
    LET w == prv_mqtt_data_recv_cb(World, << pkt >>, 0, TRUE)
    IN \A i \in Slots :
         IsPendingQos0(i) =>
            /\ w.c.requests[i] = client.requests[i]
            /\ \A k \in 1 .. Len(w.e) : w.e[k].arg # client.requests[i].arg

\* C37: a pending publish request without QoS (packet id 0) is retired by
\* the send-complete handler or by transport-closed only: no inbound PUBACK,
\* PUBCOMP, SUBACK or UNSUBACK, whatever packet id it carries, 0 included,
\* frees its slot or emits its completion event.
C37_AckNeverRetiresQos0 ==
    RxIdle => \A pkt \in AckPackets : AckKeepsQos0(pkt)

\* the acknowledgements with a packet id other than 0 retire no pending
\* publish request without QoS
C37_NonZeroAckKeepsQos0 ==
    RxIdle =>
      \A pkt \in AckPackets : pkt[3] * 256 + pkt[4] # 0 => AckKeepsQos0(pkt)

\* an acknowledgement with the packet id 0 retires the pending publish
\* request without QoS in the lowest slot
C37_ZeroAckRetiresQos0 ==
    RxIdle =>
      \A pkt \in AckPackets :
        \A i \in Slots :
          (/\ pkt[3] * 256 + pkt[4] = 0
           /\ IsPendingQos0(i)
           /\ \A j \in Slots : j < i => ~IsPendingQos0(j)) =>
             LET w == prv_mqtt_data_recv_cb(World, << pkt >>, 0, TRUE)
             IN /\ w.c.requests = [client.requests EXCEPT ![i].status = 0]
                /\ Len(w.e) = 1
                /\ w.e[1].type = AckEvent(pkt)
                /\ w.e[1].arg = client.requests[i].arg

\* a publish request without QoS is pending while the session can be
\* handed a packet
C37_Qos0PendingAtRx ==
    /\ RxIdle
    /\ client.conn_state = LWCELL_MQTT_CONNECTED
    /\ \E i \in Slots : IsPendingQos0(i) /\ RequestKind(i) = "PUBLISH"

\* what lies in the memory behind the body of a packet: nothing that was
\* ever written, the next bytes of the segment (a PINGRESP, a CONNACK), the
\* bytes an earlier packet left in the RX buffer
BodyTails == {<<>>, <<0>>, <<208, 0>>, <<32, 2, 0, 0>>, <<116, 0, 5>>}

\* the packets handed to the dispatcher, each with a remaining length of
\* one byte
DispatchInputs ==
    {PktConnack(0), PktConnack(5), PktSuback(1, 0), PktSuback(1, 128),
     PktUnsuback(1), PktPuback(1), PktPubcomp(1), PktUnsuback(0), PktPuback(0)}

\* the outcome of dispatching the packet p, framed by the parser, with its
\* body in memory followed by the bytes tail
DispatchOf(p, tail, u) ==
    LET w1 == ParseLinear(World, SubSeq(p, 1, 2), 0, u, TRUE)
    IN RxOutcome(prv_mqtt_process_incoming_message(
                     w1, SubSeq(p, 3, Len(p)) \o tail, u, TRUE))

\* the dispatcher's outcome for p depends on the body of p only: it is the
\* one outcome whatever lies behind the body
ReadsBodyOnly(p) ==
    \A t \in BodyTails, u \in UndefBytes :
        DispatchOf(p, t, u) = DispatchOf(p, <<>>, 0)

\* C38: when dispatching a packet the dispatcher reads only RX positions
\* below msg_rem_len: the events, responses and state changes are the same
\* for any two inputs that agree on the header byte, the remaining length
\* and the body bytes, whatever bytes follow the packet in the segment or
\* were left in the RX buffer by earlier packets.
C38_DispatchReadsBodyOnly ==
    RxIdle => \A p \in DispatchInputs : ReadsBodyOnly(p)

\* the dispatcher reads only body bytes of every packet but the UNSUBACK
C38_ReadsBodyOnlyButUnsuback ==
    RxIdle =>
      \A p \in DispatchInputs :
        MQTT_RCV_GET_PACKET_TYPE(p[1]) # MQTT_MSG_TYPE_UNSUBACK => ReadsBodyOnly(p)

\* a PUBLISH whose topic length field exceeds its body
PktPublishShort == <<48, 3, 0, 2, 116>>

\* the topic handed to the user for PktPublishShort, with its body in memory
\* followed by the bytes tail
ShortTopicOf(tail, u) ==
    LET w1 == ParseLinear(World, SubSeq(PktPublishShort, 1, 2), 0, u, TRUE)
        w2 == prv_mqtt_process_incoming_message(
                  w1, SubSeq(PktPublishShort, 3, 5) \o tail, u, TRUE)
    IN w2.e[Len(w2.e)].topic

\* the topic of the PUBLISH_RECV event for PktPublishShort is made of body
\* bytes only
C38_PublishTopicOfBody ==
    RxIdle =>
      \A t \in BodyTails, u \in UndefBytes :
          ShortTopicOf(t, u) = ShortTopicOf(<<>>, 0)

\* an unsubscribe request with the packet id 1 is pending while the session
\* can be handed a packet
C38_UnsubscribePendingAtRx ==
    /\ RxIdle
    /\ client.conn_state = LWCELL_MQTT_CONNECTED
    /\ \E i \in Slots : IsPendingWith(i, 1) /\ RequestKind(i) = "UNSUBSCRIBE"

\* The publish path where the transport does what it accepted: the session
\* of SpecPub, in which every send is accepted and every send-complete is
\* successful, with the send-complete event of a block handed to the
\* transport eventually delivered.
SpecPubLive == Init /\ [][NextPub]_vars /\ WF_vars(ConnSend(LimPub))

\* a publish request without QoS with the argument a is pending
Qos0Accepted(a) ==
    \E i \in Slots : IsPendingQos0(i) /\ client.requests[i].arg = a

\* the user is handed the PUBLISH event with the argument a and the result OK
PublishOkEvent(a) ==
    \E k \in 1 .. Len(evts) :
        /\ evts[k].type = "PUBLISH"
        /\ evts[k].arg = a
        /\ evts[k].res = "OK"

ApiTopics == {<<>>, TopicT}

\* the call that returned w changed nothing: client, transport and events
\* are as before
CallChangedNothing(w) ==
    /\ w.c = client
    /\ w.t = transport
    /\ w.e = <<>>

\* connect: a transport connection is started from
\* LWCELL_MQTT_CONN_DISCONNECTED only; in any other state the call returns an
\* error and changes nothing
ConnectGuarded ==
    \A info \in Infos, attached \in BOOLEAN, startok \in BOOLEAN :
        LET w == lwcell_mqtt_client_connect(World, info, attached, startok)
        IN IF client.conn_state = LWCELL_MQTT_CONN_DISCONNECTED
           THEN IF attached /\ startok
                THEN /\ w.r = "OK"
                     /\ w.c.conn_state = LWCELL_MQTT_CONN_CONNECTING
                     /\ w.t.phase = "starting"
                ELSE /\ w.r # "OK"
                     /\ w.c.conn_state = client.conn_state
                     /\ w.t = transport
           ELSE w.r # "OK" /\ CallChangedNothing(w)

\* subscribe and unsubscribe: outside LWCELL_MQTT_CONNECTED the call returns
\* an error and changes nothing
SubUnsubGuarded ==
    \A topic \in ApiTopics, sendok \in SendResults :
        LET ws == lwcell_mqtt_client_subscribe(World, topic, 1, CreateArg, sendok)
            wu == lwcell_mqtt_client_unsubscribe(World, topic, CreateArg, sendok)
        IN client.conn_state # LWCELL_MQTT_CONNECTED =>
             /\ ws.r = "ERR" /\ CallChangedNothing(ws)
             /\ wu.r = "ERR" /\ CallChangedNothing(wu)

\* publish: outside LWCELL_MQTT_CONNECTED the call changes nothing and
\* returns the closed error; with always_closed for every topic, without it
\* the generic error for the empty topic
PublishGuarded(always_closed) ==
    \A in \in PubInputs, topic \in ApiTopics, sendok \in SendResults :
        LET w == lwcell_mqtt_client_publish(World, topic, in.payload,
                     IF in.payload = Null THEN 0 ELSE Len(in.payload),
                     in.qos, in.retain, CreateArg, sendok)
        IN client.conn_state # LWCELL_MQTT_CONNECTED =>
             /\ CallChangedNothing(w)
             /\ w.r = IF topic = <<>> /\ ~always_closed THEN "ERR" ELSE "CLOSED"

\* disconnect: a close is asked of the transport only when the state is
\* neither LWCELL_MQTT_CONN_DISCONNECTED nor LWCELL_MQTT_CONN_DISCONNECTING,
\* and the state becomes LWCELL_MQTT_CONN_DISCONNECTING only when the
\* transport accepted it; otherwise the call returns an error and changes
\* nothing
DisconnectGuarded ==
    \A closeok \in CloseResults :
        LET w == lwcell_mqtt_client_disconnect(World, closeok)
        IN IF /\ client.conn_state # LWCELL_MQTT_CONN_DISCONNECTED
              /\ client.conn_state # LWCELL_MQTT_CONN_DISCONNECTING
              /\ closeok
           THEN /\ w.r = "OK"
                /\ w.c = [client EXCEPT !.conn_state = LWCELL_MQTT_CONN_DISCONNECTING]
                /\ w.t = [transport EXCEPT !.closing = TRUE]
                /\ w.e = <<>>
           ELSE w.r = "ERR" /\ CallChangedNothing(w)

\* C40 (amended): the API calls are guarded by the session state: connect
\* starts a transport connection only from DISCONNECTED; publish, subscribe
\* and unsubscribe create a request and write a packet only in CONNECTED;
\* disconnect asks for a close only when the state is neither DISCONNECTED
\* nor DISCONNECTING and moves to DISCONNECTING only if the transport
\* accepted the close; a call made in any other state returns an error and
\* changes nothing.  The error of publish outside CONNECTED is the closed
\* error, except for an empty topic, which is refused with the generic
\* error before the state is looked at.
C40_ApiGuardedByState ==
    /\ ConnectGuarded
    /\ SubUnsubGuarded
    /\ PublishGuarded(FALSE)
    /\ DisconnectGuarded

\* C40 as stated: publish outside CONNECTED returns the closed error,
\* whatever its arguments.
C40_Original ==
    /\ ConnectGuarded
    /\ SubUnsubGuarded
    /\ PublishGuarded(TRUE)
    /\ DisconnectGuarded

\* a publish made while the close is under way returned the closed error
C40_Witness ==
    /\ last.op = "publish"
    /\ last.res = "CLOSED"
    /\ client.conn_state = LWCELL_MQTT_CONN_DISCONNECTING
    /\ evts = <<>>
====
